---- MODULE Spec2Model ----
(***************************************************************************)
(* Grading engine of the quiz backend (app/api/v1/attempts.py,             *)
(* app/api/v1/questions.py): the scoring rules of submit_answer, the regex *)
(* matching sub-rule _regex_matches and the library functions they call.   *)
(*                                                                         *)
(* Data representation                                                     *)
(*   - an optional value (Python None / absent dict key) is the empty set, *)
(*     a present value x is the singleton {x};                             *)
(*   - a string is a sequence of one-character strings;                    *)
(*   - a JSON number of a scoring rule is a record [kind, v]: kind "int"   *)
(*     (v in whole units), kind "float" (v in tenths, a literal such as    *)
(*     0.3) or kind "bad" (a non-numeric literal such as "abc");           *)
(*   - a Decimal is a record [t, e, r]: t tenths, plus e units of          *)
(*     1/(5*2^55) (the binary representation error a float carries into    *)
(*     Decimal(float)), plus the sign r of the residue left by rounding to *)
(*     the 28 significant digits of the decimal context.  The three        *)
(*     components are of strictly decreasing magnitude, so Decimals are    *)
(*     ordered lexicographically.                                          *)
(***************************************************************************)
EXTENDS Integers, Sequences, FiniteSets, TLC

\* ------------------------------------------------------------------ bounds
MaxTextLen == 2        \* longest text_response / accepted answer (text, match)
MaxFuzzyLen == 2       \* longest fuzzy target / response
MaxPatLen == 5         \* longest regex pattern
MaxRegexTextLen == 2   \* longest text matched against a pattern
MaxTenths == 3         \* largest float literal (in tenths) of answer / tolerance
MaxResp == 5           \* largest numeric_response (in tenths)
MaxAccepted == 2       \* longest accepted_answers / pairs list
MaxRules == 2          \* longest scoring.parts list
MaxParts == 2          \* longest payload.parts list
MaxOptions == 2        \* most options of a question
MaxNodes == 3          \* most taxonomy nodes
MaxPathLen == 3        \* longest materialized path a move may extend
MaxWalk == 4           \* ancestors collected before a walk is cut off
MaxBulk == 2           \* longest taxonomy_ids list of a bulk request
MaxVersions == 3       \* most versions published of the quiz
MaxKeys == 2           \* most API keys configured
MaxCalls == 2          \* callers of get_api_key
MaxClock == 12         \* last second the clock reaches

\* ------------------------------------------------------- optional values
None == {}
Some(x) == {x}
IsNone(o) == o = {}
Val(o) == CHOOSE x \in o : TRUE
\* dict.get(key, default)
Get(o, default) == IF IsNone(o) THEN default ELSE Val(o)

\* ---------------------------------------------------------------- strings
BS == "\\"
Str(S, n) == UNION {[1..k -> S] : k \in 0..n}

LowerChar(c) == IF c = "A" THEN "a" ELSE IF c = "B" THEN "b" ELSE c
\* str.lower()
Lower(s) == [i \in 1..Len(s) |-> LowerChar(s[i])]

IsSpace(c) == c = " "
RECURSIVE LStrip(_)
LStrip(s) == IF s # <<>> /\ IsSpace(Head(s)) THEN LStrip(Tail(s)) ELSE s
RECURSIVE RStrip(_)
RStrip(s) ==
  IF s # <<>> /\ IsSpace(s[Len(s)]) THEN RStrip(SubSeq(s, 1, Len(s) - 1)) ELSE s
\* str.strip()
Strip(s) == RStrip(LStrip(s))

\* Python truthiness of an Optional[str]: neither None nor ""
Truthy(o) == ~IsNone(o) /\ Val(o) # <<>>

\* --------------------------------------------------------------- numbers
IntNum(n) == [kind |-> "int", v |-> n]
FloatNum(t) == [kind |-> "float", v |-> t]
BadNum == [kind |-> "bad", v |-> 0]

\* float(t/10) - t/10 in units of 1/(5*2^55), for t in 0..10 tenths
FloatErrTable == <<1, 2, -2, 4, 0, -4, -8, 8, 4, 0>>
FloatErr(t) ==
  IF t = 0 THEN 0 ELSE IF t > 0 THEN FloatErrTable[t] ELSE -FloatErrTable[-t]

\* Decimal(x) of a scoring value; the caller handles kind "bad" (raises)
ToDecimal(n) ==
  IF n.kind = "float" THEN [t |-> n.v, e |-> FloatErr(n.v), r |-> 0]
  ELSE [t |-> 10 * n.v, e |-> 0, r |-> 0]

\* Decimal of a numeric_response: the request schema parses the JSON number
\* through its decimal literal, so the value is exact
RespDecimal(t) == [t |-> t, e |-> 0, r |-> 0]

\* Whether rounding T/10 + E units to 28 significant digits (ROUND_HALF_EVEN)
\* rounds upwards; tabulated for -9 <= T <= 9 and the errors of 0.1 .. 0.4
RoundsUp(T, E) ==
  CASE E = -1 -> T # 1
    [] E = 1 -> T = -1
    [] E = -2 -> T \in {0, 1}
    [] E = 2 -> T \notin {-1, 0}
    [] E = -4 -> TRUE
    [] E = 4 -> FALSE
    [] OTHER -> FALSE

\* a - b in the default decimal context
DecSub(a, b) ==
  LET T == a.t - b.t
      E == a.e - b.e
  IN [t |-> T, e |-> E,
      r |-> IF E = 0 THEN 0 ELSE IF RoundsUp(T, E) THEN 1 ELSE -1]

DecLess(a, b) ==
  \/ a.t < b.t
  \/ a.t = b.t /\ a.e < b.e
  \/ a.t = b.t /\ a.e = b.e /\ a.r < b.r
DecLeq(a, b) == a = b \/ DecLess(a, b)
DecZero == [t |-> 0, e |-> 0, r |-> 0]
\* abs(d)
DecAbs(d) ==
  IF DecLess(d, DecZero) THEN [t |-> -d.t, e |-> -d.e, r |-> -d.r] ELSE d

\* ----------------------------------------------------------------- regex
\* Characters of patterns and of the texts they are matched against.  The
\* substitution of the third attempt introduces the characters of "[0-9]".
PatChars == {BS, "d", "("}
RegexTextChars == {"1", BS, "("}
Digits == {"0", "1", "9"}
DigitClass == <<"[", "0", "-", "9", "]">>

RegexError == <<[kind |-> "error", ch |-> ""]>>
LitAtom(c) == [kind |-> "lit", ch |-> c]
DigitAtom == [kind |-> "digit", ch |-> "0"]

\* re.compile: the atoms of a pattern, or RegexError.  A backslash escapes
\* the next character (\d is the digit class, a trailing backslash is a bad
\* escape), an unescaped "(" opens a group that is never closed, "[0-9]" is
\* a character class, every other character is a literal.
RECURSIVE Compile(_)
Compile(p) ==
  IF p = <<>> THEN <<>>
  ELSE IF Head(p) = BS THEN
    IF Len(p) = 1 THEN RegexError
    ELSE LET rest == Compile(SubSeq(p, 3, Len(p)))
             atom == IF p[2] = "d" THEN DigitAtom ELSE LitAtom(p[2])
         IN IF rest = RegexError THEN RegexError ELSE <<atom>> \o rest
  ELSE IF Head(p) = "(" THEN RegexError
  ELSE IF Head(p) = "[" THEN
    IF Len(p) >= 5 /\ SubSeq(p, 1, 5) = DigitClass THEN
      LET rest == Compile(SubSeq(p, 6, Len(p)))
      IN IF rest = RegexError THEN RegexError ELSE <<DigitAtom>> \o rest
    ELSE RegexError
  ELSE LET rest == Compile(Tail(p))
       IN IF rest = RegexError THEN RegexError ELSE <<LitAtom(Head(p))>> \o rest

AtomMatches(a, c) == IF a.kind = "digit" THEN c \in Digits ELSE a.ch = c

\* re.search(pattern, text): "error", "match" or "nomatch"
Search(p, text) ==
  LET atoms == Compile(p)
  IN IF atoms = RegexError THEN "error"
     ELSE IF \E s \in 0..(Len(text) - Len(atoms)) :
               \A k \in 1..Len(atoms) : AtomMatches(atoms[k], text[s + k])
          THEN "match" ELSE "nomatch"

DecodeError == <<"decode-error">>
\* bytes(pattern, "utf-8").decode("unicode_escape"): "\\" becomes "\", an
\* unknown escape such as "\d" or "\(" is kept, a trailing "\" is an error
RECURSIVE UnicodeEscape(_)
UnicodeEscape(p) ==
  IF p = <<>> THEN <<>>
  ELSE IF Head(p) = BS THEN
    IF Len(p) = 1 THEN DecodeError
    ELSE LET rest == UnicodeEscape(SubSeq(p, 3, Len(p)))
             out == IF p[2] = BS THEN <<BS>> ELSE <<BS, p[2]>>
         IN IF rest = DecodeError THEN DecodeError ELSE out \o rest
  ELSE LET rest == UnicodeEscape(Tail(p))
       IN IF rest = DecodeError THEN DecodeError ELSE <<Head(p)>> \o rest

\* str.replace(old, new)
RECURSIVE Replace(_, _, _)
Replace(s, old, new) ==
  IF Len(s) < Len(old) THEN s
  ELSE IF SubSeq(s, 1, Len(old)) = old
       THEN new \o Replace(SubSeq(s, Len(old) + 1, Len(s)), old, new)
       ELSE <<Head(s)>> \o Replace(Tail(s), old, new)

\* pattern.replace('\\\\d', '[0-9]').replace('\\d', '[0-9]')
DigitFallback(p) ==
  Replace(Replace(p, <<BS, BS, "d">>, DigitClass), <<BS, "d">>, DigitClass)

\* The three attempts of _regex_matches, each "match", "nomatch" or "error"
AttemptRaw(p, text) == Search(p, text)
AttemptDecoded(p, text) ==
  LET alt == UnicodeEscape(p)
  IN IF alt = DecodeError THEN "error" ELSE Search(alt, text)
AttemptFallback(p, text) == Search(DigitFallback(p), text)

\* Variant: the next attempt is made only after a failure to compile/execute
FallsThrough_OnErrorOnly(outcome) == outcome = "error"

\* Whether control goes on to the next attempt after an attempt's outcome:
\* `if re.search(...): return True` inside `try ... except: pass`
FallsThrough(outcome) == outcome # "match"

\* _regex_matches(pattern, text)
RegexMatches(p, text) ==
  IF p = <<>> \/ text = <<>> THEN FALSE
  ELSE IF ~FallsThrough(AttemptRaw(p, text)) THEN TRUE
  ELSE IF ~FallsThrough(AttemptDecoded(p, text)) THEN TRUE
  ELSE IF ~FallsThrough(AttemptFallback(p, text)) THEN TRUE
  ELSE FALSE

\* -------------------------------------------------------------- difflib
\* SequenceMatcher.find_longest_match: the longest common block, the one
\* starting earliest in a and, among those, earliest in b
Blocks(a, b) ==
  {m \in [i : 1..Len(a), j : 1..Len(b), k : 1..Len(a)] :
     /\ m.i + m.k - 1 <= Len(a)
     /\ m.j + m.k - 1 <= Len(b)
     /\ SubSeq(a, m.i, m.i + m.k - 1) = SubSeq(b, m.j, m.j + m.k - 1)}
LongestMatch(a, b) ==
  CHOOSE m \in Blocks(a, b) :
    \A n \in Blocks(a, b) :
      \/ n.k < m.k
      \/ n.k = m.k /\ m.i < n.i
      \/ n.k = m.k /\ m.i = n.i /\ m.j <= n.j

\* Number of matched characters: sum of the sizes of get_matching_blocks
RECURSIVE MatchCount(_, _)
MatchCount(a, b) ==
  IF Blocks(a, b) = {} THEN 0
  ELSE LET m == LongestMatch(a, b)
       IN m.k + MatchCount(SubSeq(a, 1, m.i - 1), SubSeq(b, 1, m.j - 1))
              + MatchCount(SubSeq(a, m.i + m.k, Len(a)),
                           SubSeq(b, m.j + m.k, Len(b)))

\* SequenceMatcher(a, b).ratio() = 2*M/T (1.0 when both are empty), kept as
\* the fraction <<numerator, denominator>>
Ratio(a, b) ==
  IF Len(a) + Len(b) = 0 THEN <<1, 1>>
  ELSE <<2 * MatchCount(a, b), Len(a) + Len(b)>>

\* Variant: sim > threshold
RatioAtLeast_Strict(sim, n) ==
  10 * sim[1] > (IF n.kind = "int" THEN 10 * n.v ELSE n.v) * sim[2]

\* float(threshold) in tenths; the caller handles kind "bad" (raises)
ThresholdTenths(n) == IF n.kind = "int" THEN 10 * n.v ELSE n.v
\* sim >= threshold
RatioAtLeast(sim, n) == 10 * sim[1] >= ThresholdTenths(n) * sim[2]

\* ---------------------------------------------------------------- grading
\* Result of the grading section of a handler: the decimals score and
\* max_score and the dispatch branch taken, or an exception that escapes
Graded(b, sc, mx) == [status |-> "ok", branch |-> b, score |-> sc, max_score |-> mx]
Raised(b) == [status |-> "raise", branch |-> b, score |-> 0, max_score |-> 0]

IsBad(n) == n.kind = "bad"
\* Decimal(x.get("max_score", 1)); the rules of the model declare whole maxima
MaxScoreNum(o) == Get(o, IntNum(1))

\* Variant: the response is lower-cased but not trimmed
Normalized_NoStrip(text) == Lower(text)

\* part.text_response.strip().lower()
Normalized(text) == Lower(Strip(text))
\* accepted = [a.lower() for a in accepted_answers];
\* text_resp and any(text_resp.strip().lower() == a for a in accepted)
TextAccepted(text_opt, accepted) ==
  /\ Truthy(text_opt)
  /\ \E i \in 1..Len(accepted) : Normalized(Val(text_opt)) = Lower(accepted[i])

\* for p in pairs: text_resp and text_resp.strip().lower() == str(p).strip().lower()
PairMatched(text_opt, pairs) ==
  /\ Truthy(text_opt)
  /\ \E i \in 1..Len(pairs) : Normalized(Val(text_opt)) = Normalized(pairs[i])

\* text_resp and pattern and _regex_matches(pattern, text_resp)
RegexAccepted(text_opt, pattern_opt) ==
  /\ Truthy(text_opt)
  /\ Truthy(pattern_opt)
  /\ RegexMatches(Val(pattern_opt), Val(text_opt))

\* if text_resp: sim = SequenceMatcher(a=text_resp.lower(), b=str(target).lower()).ratio();
\* sim >= threshold
FuzzyAccepted(text_opt, target, threshold) ==
  /\ Truthy(text_opt)
  /\ RatioAtLeast(Ratio(Lower(Val(text_opt)), Lower(target)), threshold)

\* abs(Decimal(num_resp) - Decimal(expected)) <= Decimal(tol)
WithinTolerance(resp, expected, tol) ==
  DecLeq(DecAbs(DecSub(RespDecimal(resp), ToDecimal(expected))), ToDecimal(tol))

\* The body of the numeric try-block: a literal that does not parse raises
\* inside the block and is swallowed
NumericAccepted(resp_opt, answer_opt, tol) ==
  /\ ~IsNone(resp_opt)
  /\ ~IsNone(answer_opt)
  /\ ~IsBad(Val(answer_opt))
  /\ ~IsBad(tol)
  /\ WithinTolerance(Val(resp_opt), Val(answer_opt), tol)

\* One rule of scoring.parts against its response part: "raise", or whether
\* the part earns its max_score
PartCredit(pr, resp) ==
  LET ptype == Get(pr.type, "text")
  IN CASE ptype = "text" ->
            IF TextAccepted(resp.text_response, Get(pr.accepted_answers, <<>>))
            THEN "credit" ELSE "none"
       [] ptype = "regex" ->
            IF RegexAccepted(resp.text_response, pr.pattern)
            THEN "credit" ELSE "none"
       [] ptype = "fuzzy" ->
            IF IsBad(Get(pr.threshold, FloatNum(8))) THEN "raise"
            ELSE IF FuzzyAccepted(resp.text_response, Get(pr.target, <<>>),
                                  Get(pr.threshold, FloatNum(8)))
            THEN "credit" ELSE "none"
       [] ptype = "numeric" ->
            \* Decimal(pr.get("answer")) of an absent answer raises inside
            \* the try-block as well
            IF NumericAccepted(resp.numeric_response, pr.answer,
                               Get(pr.tolerance, IntNum(0)))
            THEN "credit" ELSE "none"
       [] OTHER -> "none"

\* Variant: a rule without a response part is skipped before its max_score is
\* added to the total
RECURSIVE PartsLoop_SkipMissing(_, _, _, _, _)
PartsLoop_SkipMissing(rules, parts, idx, score, max_score) ==
  IF idx > Len(rules) THEN Graded("parts", score, max_score)
  ELSE LET pr == rules[idx]
           part_max == MaxScoreNum(pr.max_score)
       IN IF IsBad(part_max) THEN Raised("parts")
          ELSE IF idx > Len(parts)
          THEN PartsLoop_SkipMissing(rules, parts, idx + 1, score, max_score)
          ELSE LET c == PartCredit(pr, parts[idx])
               IN IF c = "raise" THEN Raised("parts")
                  ELSE PartsLoop_SkipMissing(rules, parts, idx + 1,
                         IF c = "credit" THEN score + part_max.v ELSE score,
                         max_score + part_max.v)

\* for idx, pr in enumerate(parts_rules): the loop from rule idx onwards
RECURSIVE PartsLoop(_, _, _, _, _)
PartsLoop(rules, parts, idx, score, max_score) ==
  IF idx > Len(rules) THEN Graded("parts", score, max_score)
  ELSE LET pr == rules[idx]
           part_max == MaxScoreNum(pr.max_score)
       IN IF IsBad(part_max) THEN Raised("parts")
          ELSE IF idx > Len(parts)
          THEN PartsLoop(rules, parts, idx + 1, score, max_score + part_max.v)
          ELSE LET c == PartCredit(pr, parts[idx])
               IN IF c = "raise" THEN Raised("parts")
                  ELSE PartsLoop(rules, parts, idx + 1,
                                 IF c = "credit" THEN score + part_max.v ELSE score,
                                 max_score + part_max.v)

\* scoring["parts"] that is a string or a mapping is iterated as well: the
\* first pr is then a str, and pr.get("max_score", 1) raises AttributeError
GradeParts(scoring, parts) ==
  IF scoring.parts_type # "list" THEN Raised("parts")
  ELSE PartsLoop(Val(scoring.parts), parts, 1, 0, 0)

\* Decimal(o.weight or 1)
OptionWeight(o) == IF IsNone(o.weight) \/ Val(o.weight) = 0 THEN 1 ELSE Val(o.weight)

\* selected_ids: the concatenation of the selected_option_ids of the parts
RECURSIVE SelectedIds(_)
SelectedIds(parts) ==
  IF parts = <<>> THEN <<>>
  ELSE Get(Head(parts).selected_option_ids, <<>>) \o SelectedIds(Tail(parts))

IsSelected(o, selected) == \E i \in 1..Len(selected) : selected[i] = o.id

\* for o in opts: if o.is_correct: max_score += Decimal(o.weight or 1)
RECURSIVE OptionsMax(_)
OptionsMax(opts) ==
  IF opts = <<>> THEN 0
  ELSE (IF Head(opts).is_correct THEN OptionWeight(Head(opts)) ELSE 0)
       + OptionsMax(Tail(opts))

\* for o in opts: if str(o.id) in selected and o.is_correct: score += ...
RECURSIVE OptionsScore(_, _)
OptionsScore(opts, selected) ==
  IF opts = <<>> THEN 0
  ELSE (IF IsSelected(Head(opts), selected) /\ Head(opts).is_correct
        THEN OptionWeight(Head(opts)) ELSE 0)
       + OptionsScore(Tail(opts), selected)

GradeOptions(options, parts) ==
  Graded("options", OptionsScore(options, SelectedIds(parts)), OptionsMax(options))

\* Variant: the text_response of the last part
FirstText_Last(parts) == IF parts = <<>> THEN None ELSE parts[Len(parts)].text_response
\* payload.parts[0].<slot> if payload.parts else None
FirstText(parts) == IF parts = <<>> THEN None ELSE parts[1].text_response
FirstNumeric(parts) == IF parts = <<>> THEN None ELSE parts[1].numeric_response

\* The full-credit-or-none rules: max_score is parsed outside any try-block
FullOrNone(b, max_opt, accepted) ==
  IF IsBad(MaxScoreNum(max_opt)) THEN Raised(b)
  ELSE Graded(b, IF accepted THEN MaxScoreNum(max_opt).v ELSE 0,
              MaxScoreNum(max_opt).v)

GradeText(scoring, parts) ==
  FullOrNone("text", scoring.max_score,
             TextAccepted(FirstText(parts), Get(scoring.accepted_answers, <<>>)))

GradeNumeric(scoring, parts) ==
  FullOrNone("numeric", scoring.max_score,
             NumericAccepted(FirstNumeric(parts), scoring.answer,
                             Get(scoring.tolerance, IntNum(0))))

GradeMatch(scoring, parts) ==
  FullOrNone("match", scoring.max_score,
             PairMatched(FirstText(parts), Get(scoring.pairs, <<>>)))

GradeRegex(scoring, parts) ==
  FullOrNone("regex", scoring.max_score,
             RegexAccepted(FirstText(parts), scoring.pattern))

\* threshold = float(scoring.get("threshold", 0.8)) comes first and raises
\* on a literal that does not parse
GradeFuzzy(scoring, parts) ==
  IF IsBad(Get(scoring.threshold, FloatNum(8))) THEN Raised("fuzzy")
  ELSE FullOrNone("fuzzy", scoring.max_score,
                  FuzzyAccepted(FirstText(parts), Get(scoring.target, <<>>),
                                Get(scoring.threshold, FloatNum(8))))

GradeDefault(scoring) == FullOrNone("default", scoring.max_score, FALSE)

\* isinstance(scoring, dict) and scoring.get("parts")
HasParts(scoring) == ~IsNone(scoring.parts) /\ Val(scoring.parts) # <<>>

\* Variant: the options rule is tried before scoring.parts
Grade_OptionsFirst(q, parts) ==
  IF q.answer_type = "options" THEN GradeOptions(q.options, parts)
  ELSE IF HasParts(q.scoring) THEN GradeParts(q.scoring, parts)
  ELSE IF q.answer_type = "text" THEN GradeText(q.scoring, parts)
  ELSE IF q.answer_type = "numeric" THEN GradeNumeric(q.scoring, parts)
  ELSE IF q.answer_type = "match" THEN GradeMatch(q.scoring, parts)
  ELSE IF q.answer_type = "regex" THEN GradeRegex(q.scoring, parts)
  ELSE IF q.answer_type = "fuzzy" THEN GradeFuzzy(q.scoring, parts)
  ELSE GradeDefault(q.scoring)

\* The grading section of submit_answer: the if / elif chain
Grade(q, parts) ==
  IF HasParts(q.scoring) THEN GradeParts(q.scoring, parts)
  ELSE IF q.answer_type = "options" THEN GradeOptions(q.options, parts)
  ELSE IF q.answer_type = "text" THEN GradeText(q.scoring, parts)
  ELSE IF q.answer_type = "numeric" THEN GradeNumeric(q.scoring, parts)
  ELSE IF q.answer_type = "match" THEN GradeMatch(q.scoring, parts)
  ELSE IF q.answer_type = "regex" THEN GradeRegex(q.scoring, parts)
  ELSE IF q.answer_type = "fuzzy" THEN GradeFuzzy(q.scoring, parts)
  ELSE GradeDefault(q.scoring)

\* The grading section of submit_question_attempt: options, else (1, 0)
GradeStandalone(q, parts) ==
  IF q.answer_type = "options" THEN GradeOptions(q.options, parts)
  ELSE Graded("default", 0, 1)

\* ------------------------------------------------------------------ inputs
\* Questions and payloads a client can create through the API (scoring is an
\* unvalidated JSON object), bounded.
\* parts holds what iterating scoring["parts"] yields (the rules of a list,
\* the characters of a string, the keys of a mapping), parts_type the JSON
\* type of that value
NoScoring ==
  [parts |-> None, parts_type |-> "list", accepted_answers |-> None,
   max_score |-> None, answer |-> None, tolerance |-> None, pairs |-> None,
   pattern |-> None, target |-> None, threshold |-> None]
NoRule ==
  [type |-> None, max_score |-> None, accepted_answers |-> None,
   pattern |-> None, target |-> None, threshold |-> None, answer |-> None,
   tolerance |-> None]
EmptyPart ==
  [selected_option_ids |-> None, text_response |-> None, numeric_response |-> None]
TextPart(s) == [EmptyPart EXCEPT !.text_response = Some(s)]
NumPart(t) == [EmptyPart EXCEPT !.numeric_response = Some(t)]
SelPart(ids) == [EmptyPart EXCEPT !.selected_option_ids = Some(ids)]

Question(t, sc, opts) == [answer_type |-> t, scoring |-> sc, options |-> opts]
AnswerTypes ==
  {"options", "text", "numeric", "match", "regex", "fuzzy", "composite", "essay"}
KnownTypes == {"options", "text", "numeric", "match", "regex", "fuzzy"}

\* payload.parts: a first part and up to MaxParts - 1 further parts
PayloadsOf(First, Rest) ==
  {<<>>} \union {<<f>> \o r : f \in First, r \in Str(Rest, MaxParts - 1)}
OtherParts == {EmptyPart, TextPart(<<"a">>)}

MaxScores == {None, Some(IntNum(0)), Some(IntNum(2)), Some(IntNum(-1)), Some(BadNum)}
DefaultMaxScores == {None, Some(IntNum(2)), Some(BadNum)}
FewMaxScores == {None, Some(IntNum(2)), Some(BadNum)}
EmptyPartsOpts == {None, Some(<<>>)}

\* options
Weights == {None, Some(0), Some(2)}
OptionKinds == [is_correct : BOOLEAN, weight : Weights]
OptionLists ==
  {[i \in 1..Len(ks) |-> [id |-> i, is_correct |-> ks[i].is_correct,
                          weight |-> ks[i].weight]] : ks \in Str(OptionKinds, MaxOptions)}
Selections ==
  {None, Some(<<>>), Some(<<1>>), Some(<<2>>), Some(<<1, 2>>), Some(<<1, 1>>),
   Some(<<MaxOptions + 1>>)}
OptionsInputs ==
  {[q |-> Question("options", NoScoring, opts), p |-> parts] :
     opts \in OptionLists,
     parts \in Str({[EmptyPart EXCEPT !.selected_option_ids = s] : s \in Selections},
                   MaxParts)}

\* text and match
TextChars == {"a", "A", " "}
TextResponses == {None} \union {Some(s) : s \in Str(TextChars, MaxTextLen)}
AcceptedAnswers == {<<>>, <<"A">>, <<" ", "a">>}
AcceptedLists == {None} \union {Some(l) : l \in Str(AcceptedAnswers, MaxAccepted)}
TextPayloads ==
  PayloadsOf({[EmptyPart EXCEPT !.text_response = t] : t \in TextResponses}, OtherParts)
TextInputs ==
  {[q |-> Question("text", [NoScoring EXCEPT !.accepted_answers = a,
                                             !.max_score = m, !.parts = e], <<>>),
    p |-> parts] :
     a \in AcceptedLists, m \in MaxScores, e \in {None}, parts \in TextPayloads}
MatchInputs ==
  {[q |-> Question("match", [NoScoring EXCEPT !.pairs = a, !.max_score = m], <<>>),
    p |-> parts] :
     a \in AcceptedLists, m \in FewMaxScores, parts \in TextPayloads}

\* numeric
Answers ==
  {None, Some(IntNum(0)), Some(BadNum)} \union {Some(FloatNum(t)) : t \in 1..MaxTenths}
Tolerances ==
  {None, Some(BadNum), Some(FloatNum(-1))} \union {Some(FloatNum(t)) : t \in 1..MaxTenths}
NumericResponses == {None} \union {Some(t) : t \in -1..MaxResp}
NumericPayloads ==
  PayloadsOf({[EmptyPart EXCEPT !.numeric_response = r] : r \in NumericResponses},
             OtherParts)
NumericInputs ==
  {[q |-> Question("numeric", [NoScoring EXCEPT !.answer = a, !.tolerance = t,
                                                !.max_score = m], <<>>),
    p |-> parts] :
     a \in Answers, t \in Tolerances, m \in MaxScores, parts \in NumericPayloads}

\* regex
Patterns == {None} \union {Some(s) : s \in Str(PatChars, MaxPatLen - 2)}
RegexResponses == {None} \union {Some(s) : s \in Str(RegexTextChars, MaxRegexTextLen)}
RegexInputs ==
  {[q |-> Question("regex", [NoScoring EXCEPT !.pattern = x, !.max_score = m], <<>>),
    p |-> parts] :
     x \in Patterns, m \in FewMaxScores,
     parts \in PayloadsOf({[EmptyPart EXCEPT !.text_response = t] : t \in RegexResponses},
                          {EmptyPart})}

\* fuzzy
FuzzyTargets == {None} \union {Some(s) : s \in Str({"a", "b"}, MaxFuzzyLen)}
FuzzyResponses == {None} \union {Some(s) : s \in Str({"a", "b", "A"}, MaxFuzzyLen)}
Thresholds ==
  {None, Some(IntNum(0)), Some(FloatNum(5)), Some(IntNum(1)), Some(FloatNum(15)),
   Some(BadNum)}
FuzzyInputs ==
  {[q |-> Question("fuzzy", [NoScoring EXCEPT !.target = g, !.threshold = h,
                                              !.max_score = m], <<>>),
    p |-> parts] :
     g \in FuzzyTargets, h \in Thresholds, m \in FewMaxScores,
     parts \in PayloadsOf({[EmptyPart EXCEPT !.text_response = t] : t \in FuzzyResponses},
                          {EmptyPart})}

\* unknown answer types
DefaultInputs ==
  {[q |-> Question(t, [NoScoring EXCEPT !.max_score = m, !.parts = e], <<>>),
    p |-> parts] :
     t \in AnswerTypes \ KnownTypes, m \in DefaultMaxScores, e \in EmptyPartsOpts,
     parts \in PayloadsOf(OtherParts, OtherParts)}

\* per-part scoring
PartMaxScores == {Some(IntNum(2)), Some(IntNum(-1))}
TextRules ==
  {[NoRule EXCEPT !.accepted_answers = Some(<<<<"a">>>>)]} \union
  {[NoRule EXCEPT !.type = Some("text"), !.accepted_answers = Some(<<<<"a">>>>),
                  !.max_score = m] : m \in PartMaxScores}
RegexRules ==
  {[NoRule EXCEPT !.type = Some("regex"), !.pattern = x, !.max_score = Some(IntNum(3))] :
     x \in {None, Some(<<BS, BS, "d">>)}}
FuzzyRules ==
  {[NoRule EXCEPT !.type = Some("fuzzy"), !.target = Some(<<"a">>), !.threshold = h] :
     h \in {None, Some(BadNum)}}
NumericRules ==
  {[NoRule EXCEPT !.type = Some("numeric"), !.answer = a, !.tolerance = t] :
     a \in {Some(FloatNum(MaxTenths)), Some(BadNum)},
     t \in {Some(FloatNum(1))}}
OtherRules ==
  {[NoRule EXCEPT !.type = Some("file")], [NoRule EXCEPT !.max_score = Some(BadNum)]}
PartRules == TextRules \union RegexRules \union FuzzyRules \union NumericRules
               \union OtherRules
RuleParts == {EmptyPart, TextPart(<<"A">>), TextPart(<<"1">>), NumPart(MaxTenths)}
RulePayloads == Str(RuleParts, MaxParts)
PartsInputs ==
  {[q |-> Question("composite", [NoScoring EXCEPT !.parts = Some(rs)], <<>>),
    p |-> parts] :
     rs \in Str(PartRules, MaxRules) \ {<<>>}, parts \in RulePayloads}
  \union
  {[q |-> Question(t, [NoScoring EXCEPT !.parts = Some(<<r>>),
                                        !.accepted_answers = Some(<<<<"a">>>>),
                                        !.pairs = Some(<<<<"a">>>>),
                                        !.answer = Some(FloatNum(MaxTenths)),
                                        !.pattern = Some(<<BS, "d">>),
                                        !.target = Some(<<"a">>)],
                   <<[id |-> 1, is_correct |-> TRUE, weight |-> Some(2)]>>),
    p |-> parts] :
     t \in AnswerTypes, r \in PartRules,
     parts \in Str({TextPart(<<"A">>), TextPart(<<"1">>), NumPart(MaxTenths),
                    SelPart(<<1>>)}, 1)}

\* ------------------------------------------------------------------- state
VARIABLES
  question,     \* the Question row the request names
  payload,      \* QuestionAttemptCreate.parts of the request
  handler,      \* endpoint that served the request ("" while it is pending)
  http_status,  \* 0 pending, 200 answered, 500 unhandled exception
  graded,       \* outcome of the grading section
  q_attempt,    \* the QuestionAttempt row written (score, max_score), or None
  qa,           \* the QuizAttempt row: running score and max_score, or None
  rx,           \* a call of _regex_matches: arguments, position, outcomes
  taxonomy,     \* the taxonomy table: node id |-> [parent_id, path]
  stats,        \* the committed rows of user_taxonomy_stats
  attempts,     \* per submission: the committed QuestionAttempt and totals
  txn,          \* per submission: the request and its open database session
  links,        \* question_taxonomy: rows per (question_id, taxonomy_id)
  listing,      \* the last response of GET /questions?taxonomy_id=
  quiz_versions, \* the committed rows of quiz_versions, in commit order
  publishers,   \* per publish_quiz request: its position and what it read
  key_manager,  \* the KeyManager: index, next_allowed per key, lock holder
  callers,      \* per caller of get_api_key: position, key, reserved start
  clock         \* time.time(), in seconds

vars == <<question, payload, handler, http_status, graded, q_attempt, qa, rx,
          taxonomy, stats, attempts, txn, links, listing, quiz_versions,
          publishers, key_manager, callers, clock>>

\* The question catalogue, the quiz publisher and the key rotation, idle and
\* untouched while the other parts of the backend are exercised
ServicesIdle ==
  /\ links = <<>> /\ listing = <<>>
  /\ quiz_versions = <<>> /\ publishers = <<>>
  /\ key_manager = <<>> /\ callers = <<>> /\ clock = 0
CatalogFrame == UNCHANGED <<links, listing>>
PublishFrame == UNCHANGED <<quiz_versions, publishers>>
KeysFrame == UNCHANGED <<key_manager, callers, clock>>
ServicesFrame == CatalogFrame /\ PublishFrame /\ KeysFrame

\* The tables and sessions of the statistics engine, empty and untouched while
\* an anonymous request is graded
StatsIdle == taxonomy = <<>> /\ stats = {} /\ attempts = <<>> /\ txn = <<>>
StatsFrame == UNCHANGED <<taxonomy, stats, attempts, txn>>

NotGraded == [status |-> "pending", branch |-> "", score |-> 0, max_score |-> 0]
\* _regex_matches(pattern, text) about to run: pc is the statement reached,
\* outcomes the results of the attempts made so far, result the value returned
RegexCall(p, t) ==
  [pattern |-> p, text |-> t, pc |-> "entry", outcomes |-> <<>>, result |-> None]
NoRegexCall == [RegexCall(<<>>, <<>>) EXCEPT !.pc = "idle"]

\* A quiz attempt started anonymously (user_id None, so submit_answer skips
\* the statistics update) with no answer submitted yet, and one request
Init ==
  /\ \/ \E i \in OptionsInputs : question = i.q /\ payload = i.p
     \/ \E i \in TextInputs : question = i.q /\ payload = i.p
     \/ \E i \in MatchInputs : question = i.q /\ payload = i.p
     \/ \E i \in NumericInputs : question = i.q /\ payload = i.p
     \/ \E i \in RegexInputs : question = i.q /\ payload = i.p
     \/ \E i \in FuzzyInputs : question = i.q /\ payload = i.p
     \/ \E i \in DefaultInputs : question = i.q /\ payload = i.p
     \/ \E i \in PartsInputs : question = i.q /\ payload = i.p
  /\ handler = ""
  /\ http_status = 0
  /\ graded = NotGraded
  /\ q_attempt = None
  /\ qa = [score |-> None, max_score |-> None]
  /\ rx = NoRegexCall
  /\ StatsIdle
  /\ ServicesIdle

\* The handler from the grading section on: grade, write the QuestionAttempt,
\* add to the totals of the quiz attempt, commit.  An exception of the grading
\* section leaves the handler before anything is written.
Serve(name, g) ==
  /\ handler' = name
  /\ graded' = g
  /\ IF g.status = "ok"
     THEN /\ q_attempt' = Some([score |-> g.score, max_score |-> g.max_score])
          /\ qa' = [score |-> Some(Get(qa.score, 0) + g.score),
                    max_score |-> Some(Get(qa.max_score, 0) + g.max_score)]
          /\ http_status' = 200
     ELSE /\ UNCHANGED <<q_attempt, qa>>
          /\ http_status' = 500
  /\ UNCHANGED <<question, payload, rx>>
  /\ StatsFrame
  /\ ServicesFrame

\* POST /quiz-attempts/{attempt_id}/submit-answer
SubmitAnswer ==
  /\ http_status = 0
  /\ Serve("submit_answer", Grade(question, payload))

\* POST /questions/{question_id}/attempt, which wraps the answer in a fresh
\* QuizAttempt of its own
SubmitQuestionAttempt ==
  /\ http_status = 0
  /\ Serve("submit_question_attempt", GradeStandalone(question, payload))

Next == SubmitAnswer \/ SubmitQuestionAttempt

Spec == Init /\ [][Next]_vars

\* ------------------------------------------ _regex_matches, step by step
\* A call of _regex_matches on its own, with every pattern and text up to
\* the bounds; the request variables are idle.
InitRegex ==
  /\ \E p \in Str(PatChars, MaxPatLen), t \in Str(RegexTextChars, MaxRegexTextLen) :
       rx = RegexCall(p, t)
  /\ question = Question("regex", NoScoring, <<>>)
  /\ payload = <<>>
  /\ handler = ""
  /\ http_status = 0
  /\ graded = NotGraded
  /\ q_attempt = None
  /\ qa = [score |-> None, max_score |-> None]
  /\ StatsIdle
  /\ ServicesIdle

RegexFrame ==
  /\ UNCHANGED <<question, payload, handler, http_status, graded, q_attempt, qa>>
  /\ StatsFrame
  /\ ServicesFrame

\* if not pattern or not text: return False
RegexEntry ==
  /\ rx.pc = "entry"
  /\ rx' = IF rx.pattern = <<>> \/ rx.text = <<>>
           THEN [rx EXCEPT !.pc = "done", !.result = Some(FALSE)]
           ELSE [rx EXCEPT !.pc = "raw"]
  /\ RegexFrame

\* One try-block: run the attempt; return True on a match, otherwise go on to
\* the statement after the block (the final `return False` after the last)
RegexAttempt(outcome, next) ==
  /\ rx' = IF FallsThrough(outcome)
           THEN IF next = "done"
                THEN [rx EXCEPT !.pc = "done", !.result = Some(FALSE),
                                !.outcomes = Append(@, outcome)]
                ELSE [rx EXCEPT !.pc = next, !.outcomes = Append(@, outcome)]
           ELSE [rx EXCEPT !.pc = "done", !.result = Some(TRUE),
                           !.outcomes = Append(@, outcome)]
  /\ RegexFrame

RegexTryRaw ==
  /\ rx.pc = "raw"
  /\ RegexAttempt(AttemptRaw(rx.pattern, rx.text), "decoded")
RegexTryDecoded ==
  /\ rx.pc = "decoded"
  /\ RegexAttempt(AttemptDecoded(rx.pattern, rx.text), "fallback")
RegexTryFallback ==
  /\ rx.pc = "fallback"
  /\ RegexAttempt(AttemptFallback(rx.pattern, rx.text), "done")

NextRegex == RegexEntry \/ RegexTryRaw \/ RegexTryDecoded \/ RegexTryFallback

SpecRegex == InitRegex /\ [][NextRegex]_vars

\* --------------------------------------------------------------- taxonomy
\* Node ids are 1, 2, ... in the order of creation (the server-generated
\* uuid); a path "a.b.c" is the sequence <<a, b, c>> of the ids it joins.
NodeIds == 1..MaxNodes
Exists(id) == id \in DOMAIN taxonomy
\* f"{parent.path}.{str(node.id)}" if parent.path else str(node.id)
ChildPath(parent, id) == IF parent.path # <<>> THEN parent.path \o <<id>> ELSE <<id>>
RootPath(id) == <<id>>

\* The grading variables, idle while the taxonomy is administered
GradingIdle ==
  /\ question = Question("options", NoScoring, <<>>)
  /\ payload = <<>>
  /\ graded = NotGraded
  /\ q_attempt = None
  /\ qa = [score |-> None, max_score |-> None]
  /\ rx = NoRegexCall
GradingFrame == UNCHANGED <<question, payload, graded, q_attempt, qa, rx>>

InitTaxonomy ==
  /\ taxonomy = <<>>
  /\ stats = {} /\ attempts = <<>> /\ txn = <<>>
  /\ handler = "" /\ http_status = 0
  /\ GradingIdle
  /\ ServicesIdle

\* POST /taxonomy: add the node, flush (the id is assigned), set the path
\* from the parent, commit.  A parent_id that names no node ends the request
\* before the commit (400, or the foreign key failing at the flush), so the
\* node is not kept.
CreateTaxonomy ==
  /\ Len(taxonomy) < MaxNodes
  /\ handler' = "create_taxonomy"
  /\ \E parent_id \in {None} \union {Some(n) : n \in NodeIds} :
       LET id == Len(taxonomy) + 1 IN
       IF IsNone(parent_id)
       THEN /\ taxonomy' = Append(taxonomy, [parent_id |-> None, path |-> RootPath(id)])
            /\ http_status' = 201
       ELSE IF Exists(Val(parent_id))
       THEN /\ taxonomy' = Append(taxonomy,
                   [parent_id |-> parent_id,
                    path |-> ChildPath(taxonomy[Val(parent_id)], id)])
            /\ http_status' = 201
       ELSE /\ UNCHANGED taxonomy
            /\ http_status' \in {400, 500}
  /\ UNCHANGED <<stats, attempts, txn>>
  /\ GradingFrame
  /\ ServicesFrame

\* PUT /taxonomy/{node_id}/move: set parent_id and the path of the node
\* itself from the new parent, commit.  db.get returns the node itself when
\* parent_id == node_id, so parent.path is then the node's path before the
\* move.  No other row is written.
MoveTaxonomyNode ==
  /\ handler' = "move_taxonomy_node"
  /\ \E node_id \in NodeIds, parent_id \in {None} \union {Some(n) : n \in NodeIds} :
       IF ~Exists(node_id)
       THEN UNCHANGED taxonomy /\ http_status' = 404
       ELSE IF IsNone(parent_id)
       THEN /\ taxonomy' = [taxonomy EXCEPT ![node_id] =
                              [parent_id |-> None, path |-> RootPath(node_id)]]
            /\ http_status' = 200
       ELSE IF ~Exists(Val(parent_id))
       THEN UNCHANGED taxonomy /\ http_status' = 400
       ELSE /\ Len(taxonomy[Val(parent_id)].path) < MaxPathLen
            /\ taxonomy' = [taxonomy EXCEPT ![node_id] =
                              [parent_id |-> parent_id,
                               path |-> ChildPath(taxonomy[Val(parent_id)], node_id)]]
            /\ http_status' = 200
  /\ UNCHANGED <<stats, attempts, txn>>
  /\ GradingFrame
  /\ ServicesFrame

NextTaxonomy == CreateTaxonomy \/ MoveTaxonomyNode

SpecTaxonomy == InitTaxonomy /\ [][NextTaxonomy]_vars

\* ------------------------------------------------------ statistics engine
\* Submissions by one registered user (or anonymous, over the websocket),
\* each in a database session of its own.  Sessions run at READ COMMITTED: a
\* select sees the rows committed so far and the session's own pending rows
\* (autoflush), a row already loaded keeps the attribute values the session
\* holds, and the writes of a session reach the table at its commit.  Scores
\* are whole numbers, for which float() and Decimal(str()) are exact.
\* Two submissions, which may overlap in any way or follow one another
Subs == {1, 2}
UserId == 1
\* AsyncSessionLocal: sessionmaker(..., expire_on_commit=False), autoflush on
Autoflush == TRUE

\* UserTaxonomyStats(...); the id stands for the server-generated uuid
StatsRow(id, tid, attempted, correct, total, max, avg) ==
  [id |-> id, user_id |-> UserId, taxonomy_id |-> tid,
   questions_attempted |-> attempted, questions_correct |-> correct,
   total_score |-> total, max_possible_score |-> max,
   average_score_percent |-> avg]

\* Variant: the ratio without the factor 100
FloatPercent_Ratio(total, max) == (200 * total + max) \div (2 * max)
\* float(total) / float(max) * 100, kept to hundredths of a percent
FloatPercent(total, max) == (20000 * total + max) \div (2 * max)
\* score == max_score and max_score > 0
IsCorrect(score, max_score) == score = max_score /\ max_score > 0

\* lines 89-98: the row of a first attempt
InsertedRow(id, tid, score, max_score) ==
  StatsRow(id, tid, 1, IF IsCorrect(score, max_score) THEN 1 ELSE 0,
           score, max_score,
           IF max_score # 0 /\ max_score > 0 THEN FloatPercent(score, max_score) ELSE 0)
\* Variant: an update that stores the attempt instead of adding it
UpdatedRow_Overwrite(existing, score, max_score) ==
  [existing EXCEPT
     !.questions_attempted = 1,
     !.total_score = score,
     !.max_possible_score = max_score,
     !.questions_correct = IF IsCorrect(score, max_score) THEN 1 ELSE 0,
     !.average_score_percent =
        IF max_score > 0 THEN FloatPercent(score, max_score) ELSE 0]
\* Variant: an update that adds the score but not the max_score
UpdatedRow_MaxNotAdded(existing, score, max_score) ==
  [existing EXCEPT
     !.questions_attempted = @ + 1,
     !.total_score = @ + score,
     !.questions_correct = IF IsCorrect(score, max_score) THEN @ + 1 ELSE @]
\* lines 66-87: the existing row after one more attempt
UpdatedRow(existing, score, max_score) ==
  LET new_total == existing.total_score + score
      new_max == existing.max_possible_score + max_score
  IN [existing EXCEPT
        !.questions_attempted = @ + 1,
        !.total_score = new_total,
        !.max_possible_score = new_max,
        !.questions_correct = IF IsCorrect(score, max_score) THEN @ + 1 ELSE @,
        !.average_score_percent =
           IF new_max > 0 THEN FloatPercent(new_total, new_max) ELSE 0]

\* Variant: a select that does not filter on user_id
Visible_AnyUser(t, tid) ==
  {r \in t.session : r.taxonomy_id = tid} \union
  {r \in stats : r.taxonomy_id = tid /\ r.id \notin {x.id : x \in t.session}}
\* Variant: a select that misses the session's own pending rows
Visible_CommittedOnly(t, tid) ==
  {r \in stats : r.taxonomy_id = tid /\ r.user_id = UserId}
\* The rows a session's select finds for a node: its own copies, and the
\* committed rows it has not loaded
SessionIds(t) == {r.id : r \in t.session}
Visible(t, tid) ==
  {r \in t.session : r.taxonomy_id = tid /\ r.user_id = UserId} \union
  {r \in stats : r.taxonomy_id = tid /\ r.user_id = UserId /\ r.id \notin SessionIds(t)}
\* Variant: a table without the unique constraint
UniqueViolation_Off(row, table) == FALSE
\* UniqueConstraint("user_id", "taxonomy_id"): flushing a pending insert fails
\* when another row with the key has been committed
UniqueViolation(row, table) ==
  \E c \in table : /\ c.id # row.id
                   /\ c.user_id = row.user_id
                   /\ c.taxonomy_id = row.taxonomy_id
Pending(t) == {r \in t.session : r.id \notin {c.id : c \in stats}}
FlushFails(t) == \E r \in Pending(t) : UniqueViolation(r, stats)

\* A request: the endpoint, whether it carries a user, the taxonomy ids the
\* question is linked to, and the score and max_score of its grading
Request(via, user, tags, score, max_score) ==
  [via |-> via, user |-> user, tags |-> tags, score |-> score, max_score |-> max_score,
   pc |-> "start", ti |-> 0, cur |-> None, ancestors |-> <<>>, ai |-> 0,
   session |-> {}, after |-> {}, status |-> 0, msg |-> None]
\* websocket.send_json({"type": "result", ..., "saved": True})
ResultMessage == Some([type |-> "result", saved |-> TRUE])
NoAttempt == [q_attempt |-> None, score |-> None, max_score |-> None]

\* for tid in taxonomy_ids: node = db.get(Taxonomy, tid); cur = node
StartChain(t, ti) ==
  IF ti > Len(t.tags)
  THEN [t EXCEPT !.pc = "commit", !.ti = ti, !.cur = None, !.ancestors = <<>>, !.ai = 0]
  ELSE [t EXCEPT !.pc = "walk", !.ti = ti, !.cur = Some(t.tags[ti]),
                 !.ancestors = <<>>, !.ai = 0]
\* An exception leaves the handler: the session closes without a commit
RolledBack(t, code) ==
  [t EXCEPT !.pc = "done", !.status = code, !.session = {}, !.cur = None,
            !.ancestors = <<>>, !.ai = 0]
Committed(t) ==
  [t EXCEPT !.pc = "done", !.status = 200, !.session = {}, !.cur = None,
            !.ancestors = <<>>, !.ai = 0]
\* The table after a session's commit: its inserts and its updates, which
\* set the columns to the values the session computed
TableAfterCommit(t) == {c \in stats : c.id \notin SessionIds(t)} \union t.session
AttemptAfterCommit(a, score, max_score) ==
  [q_attempt |-> Some([score |-> score, max_score |-> max_score]),
   score |-> Some(Get(a.score, 0) + score),
   max_score |-> Some(Get(a.max_score, 0) + max_score)]

StatsFrameOthers ==
  UNCHANGED <<taxonomy, handler, http_status>> /\ GradingFrame /\ ServicesFrame

\* submit_answer, lines 260-304: the QuestionAttempt and the totals are
\* staged in the session, then update_user_taxonomy_stats is entered when the
\* quiz attempt has a user
SubmitStage(s) ==
  /\ txn[s].pc = "start" /\ txn[s].via = "submit_answer"
  /\ txn' = [txn EXCEPT ![s] =
       LET t == [txn[s] EXCEPT !.after = {u \in Subs : txn[u].pc = "done" /\ txn[u].status = 200}]
       IN IF t.user THEN StartChain(t, 1) ELSE [t EXCEPT !.pc = "commit"]]
  /\ UNCHANGED <<stats, attempts>>
  /\ StatsFrameOthers

\* Variant: a walk that stops at the tagged node
Walk_NoParent(s) ==
  /\ txn[s].pc = "walk"
  /\ txn' = [txn EXCEPT ![s] =
       [@ EXCEPT !.ancestors = <<Val(txn[s].cur)>>, !.cur = None, !.pc = "upsert", !.ai = 1]]
  /\ UNCHANGED <<stats, attempts>>
  /\ StatsFrameOthers
\* lines 39-44: ancestors.append(cur), then up to the parent
Walk(s) ==
  /\ txn[s].pc = "walk"
  /\ Len(txn[s].ancestors) < MaxWalk
  /\ LET t == txn[s]
         cur == Val(t.cur)
         parent_id == taxonomy[cur].parent_id
         up == [t EXCEPT !.ancestors = Append(@, cur)]
     IN txn' = [txn EXCEPT ![s] =
          IF ~IsNone(parent_id) /\ Exists(Val(parent_id))
          THEN [up EXCEPT !.cur = parent_id]
          ELSE [up EXCEPT !.cur = None, !.pc = "upsert", !.ai = 1]]
  /\ UNCHANGED <<stats, attempts>>
  /\ StatsFrameOthers

\* lines 46-99, one ancestor: select the row (the autoflush sends the pending
\* inserts first), then update it or add a new one
Upsert(s) ==
  /\ txn[s].pc = "upsert"
  /\ LET t == txn[s]
         tid == t.ancestors[t.ai]
         found == Visible(t, tid)
         row == IF found = {}
                THEN InsertedRow(<<s, tid>>, tid, t.score, t.max_score)
                ELSE UpdatedRow(CHOOSE r \in found : TRUE, t.score, t.max_score)
         kept == {r \in t.session : r.id # row.id} \union {row}
         next == [t EXCEPT !.session = kept, !.ai = @ + 1]
     IN txn' = [txn EXCEPT ![s] =
          IF (Autoflush /\ FlushFails(t)) \/ Cardinality(found) > 1
          THEN RolledBack(t, 500)
          ELSE IF t.ai < Len(t.ancestors) THEN next ELSE StartChain(next, t.ti + 1)]
  /\ UNCHANGED <<stats, attempts>>
  /\ StatsFrameOthers

\* line 306: await db.commit()
Commit(s) ==
  /\ txn[s].pc = "commit"
  /\ LET t == txn[s] IN
     IF FlushFails(t)
     THEN /\ txn' = [txn EXCEPT ![s] = RolledBack(t, 500)]
          /\ UNCHANGED <<stats, attempts>>
     ELSE /\ txn' = [txn EXCEPT ![s] = Committed(t)]
          /\ stats' = TableAfterCommit(t)
          /\ attempts' = [attempts EXCEPT ![s] =
                            AttemptAfterCommit(@, t.score, t.max_score)]
  /\ StatsFrameOthers

\* Variant: the failure of the statistics call is swallowed and the attempt
\* committed
StreamAnswerSave_Swallow(s) ==
  /\ txn[s].pc = "start" /\ txn[s].via = "stream_answer"
  /\ txn' = [txn EXCEPT ![s] =
       [(IF txn[s].user THEN RolledBack(txn[s], 500) ELSE Committed(txn[s]))
          EXCEPT !.msg = ResultMessage]]
  /\ attempts' = [attempts EXCEPT ![s] =
       [@ EXCEPT !.q_attempt = Some([score |-> txn[s].score, max_score |-> 1])]]
  /\ UNCHANGED stats
  /\ StatsFrameOthers
\* ws_attempts.py 348-417: save_question_attempt stages the attempt; with a
\* user, update_attempt_stats calls update_user_taxonomy_stats with a
\* time_spent keyword it does not accept, the TypeError is caught and the
\* session rolled back; without a user the attempt is committed.  The quiz
\* attempt's totals are not touched on this path.  The result message is
\* sent after the try-block, whichever way it ended (lines 419-424).
StreamAnswerSave(s) ==
  /\ txn[s].pc = "start" /\ txn[s].via = "stream_answer"
  /\ LET t == txn[s] IN
     IF t.user
     THEN /\ txn' = [txn EXCEPT ![s] = [RolledBack(t, 500) EXCEPT !.msg = ResultMessage]]
          /\ UNCHANGED attempts
     ELSE /\ txn' = [txn EXCEPT ![s] = [Committed(t) EXCEPT !.msg = ResultMessage]]
          /\ attempts' = [attempts EXCEPT ![s] =
               [@ EXCEPT !.q_attempt = Some([score |-> t.score, max_score |-> 1])]]
  /\ UNCHANGED stats
  /\ StatsFrameOthers

\* The taxonomies of the statistics runs: node 1 first, every later node
\* under node 1 or under the node before it (chains and siblings), and node
\* 1 either a root or moved under the last node, which closes a cycle
ParentChoices(n) ==
  IF n = 1 THEN {None, Some(MaxNodes)} ELSE {Some(1), Some(n - 1)}
RECURSIVE BuiltPath(_, _, _)
BuiltPath(parents, n, fuel) ==
  IF IsNone(parents[n]) \/ fuel = 0 \/ n = 1 THEN <<n>>
  ELSE BuiltPath(parents, Val(parents[n]), fuel - 1) \o <<n>>
StatsTaxonomies ==
  {[n \in NodeIds |->
      [parent_id |-> parents[n],
       path |-> IF n = 1 /\ ~IsNone(parents[1])
                THEN BuiltPath(parents, MaxNodes, MaxNodes) \o <<1>>
                ELSE BuiltPath(parents, n, MaxNodes)]] :
   parents \in {f \in [NodeIds -> {None} \union {Some(m) : m \in NodeIds}] :
                  \A n \in NodeIds : f[n] \in ParentChoices(n)}}
TagLists == {<<>>, <<MaxNodes>>, <<MaxNodes - 1, MaxNodes>>}
FirstRequests ==
  {Request(e.via, e.user, tags, g.score, g.max_score) :
     e \in {[via |-> "submit_answer", user |-> TRUE],
            [via |-> "stream_answer", user |-> TRUE],
            [via |-> "stream_answer", user |-> FALSE],
            [via |-> "submit_answer", user |-> FALSE]},
     tags \in TagLists,
     g \in {[score |-> 0, max_score |-> 0], [score |-> 1, max_score |-> 2],
            [score |-> 2, max_score |-> 2]}}
LaterRequests == {Request("submit_answer", TRUE, <<MaxNodes>>, 1, 2)}

\* The table at the start: without a row of the user, or holding for every
\* node the row of one earlier correct attempt by the user (a question linked
\* to all the nodes, answered while they were still roots)
PriorRows == {InsertedRow(<<0, n>>, n, 2, 2) : n \in NodeIds}
\* The rows of another user, who has answered a question linked to every node
OtherUser == UserId + 1
OtherUserRows ==
  {[InsertedRow(<<-1, n>>, n, 1, 2) EXCEPT !.user_id = OtherUser] : n \in NodeIds}

InitStats ==
  /\ taxonomy \in StatsTaxonomies
  /\ txn \in {f \in [Subs -> FirstRequests \union LaterRequests] :
                f[1] \in FirstRequests /\ \A s \in Subs \ {1} : f[s] \in LaterRequests}
  /\ stats \in {OtherUserRows, PriorRows \union OtherUserRows}
  /\ attempts = [s \in Subs |-> NoAttempt]
  /\ handler = "" /\ http_status = 0
  /\ GradingIdle
  /\ ServicesIdle

NextStats ==
  \/ \E s \in Subs : SubmitStage(s)
  \/ \E s \in Subs : Walk(s)
  \/ \E s \in Subs : Upsert(s)
  \/ \E s \in Subs : Commit(s)
  \/ \E s \in Subs : StreamAnswerSave(s)

SpecStats == InitStats /\ [][NextStats]_vars

\* ------------------------------------------------------ question catalogue
\* The questions that exist, and the ids a request may name (one of them
\* unknown).  question_taxonomy rows differ only in their generated id, so
\* the table is kept as the number of rows per (question_id, taxonomy_id).
QuestionIds == {1, 2}
RequestedQuestions == QuestionIds \union {Cardinality(QuestionIds) + 1}
NoLinks == [p \in QuestionIds \X NodeIds |-> 0]
\* The path and query parameters of a link request, kept with the response
LinkRequest(q, tids) == [question_id |-> q, taxonomy_ids |-> tids]
\* select(QuestionTaxonomy).where(question_id == q, taxonomy_id == t)
LinkRows(table, q, t) == IF q \in QuestionIds THEN table[<<q, t>>] ELSE 0

\* Variant: question_taxonomy without uq_question_taxonomy
LinkConflict_Off(table, q, t) == FALSE
\* UniqueConstraint("question_id", "taxonomy_id"): an INSERT fails when the
\* table holds a row with the pair
LinkConflict(table, q, t) == table[<<q, t>>] > 0

\* POST /questions/{question_id}/taxonomy
LinkQuestionTaxonomy ==
  /\ handler' = "link_question_taxonomy"
  /\ \E q \in RequestedQuestions, t \in NodeIds :
       /\ payload' = LinkRequest(q, <<t>>)
       /\ IF q \notin QuestionIds \/ ~Exists(t)
          THEN UNCHANGED links /\ http_status' = 404
          ELSE IF LinkRows(links, q, t) > 1      \* scalar_one_or_none raises
          THEN UNCHANGED links /\ http_status' = 500
          ELSE IF LinkRows(links, q, t) = 1
          THEN UNCHANGED links /\ http_status' = 400
          ELSE IF LinkConflict(links, q, t)
          THEN UNCHANGED links /\ http_status' = 500
          ELSE /\ links' = [links EXCEPT ![<<q, t>>] = @ + 1]
               /\ http_status' = 201
  /\ UNCHANGED <<taxonomy, stats, attempts, txn, listing>>
  /\ UNCHANGED <<question, graded, q_attempt, qa, rx>>
  /\ PublishFrame /\ KeysFrame

\* DELETE /questions/{question_id}/taxonomy/{taxonomy_id}
UnlinkQuestionTaxonomy ==
  /\ handler' = "unlink_question_taxonomy"
  /\ \E q \in RequestedQuestions, t \in NodeIds :
       /\ payload' = LinkRequest(q, <<t>>)
       /\ IF LinkRows(links, q, t) = 0
          THEN UNCHANGED links /\ http_status' = 404
          ELSE IF LinkRows(links, q, t) > 1      \* scalar_one_or_none raises
          THEN UNCHANGED links /\ http_status' = 500
          ELSE /\ links' = [links EXCEPT ![<<q, t>>] = @ - 1]
               /\ http_status' = 204
  /\ UNCHANGED <<taxonomy, stats, attempts, txn, listing>>
  /\ UNCHANGED <<question, graded, q_attempt, qa, rx>>
  /\ PublishFrame /\ KeysFrame

\* The INSERTs of bulk_set_question_taxonomy, one taxonomy id after the
\* other against the table as the flush finds it: None on a taxonomy id
\* that names no node (foreign key) or on a pair already in the table
RECURSIVE BulkInsert(_, _, _)
BulkInsert(table, q, tids) ==
  IF tids = <<>> THEN Some(table)
  ELSE IF ~Exists(Head(tids)) \/ LinkConflict(table, q, Head(tids)) THEN None
  ELSE BulkInsert([table EXCEPT ![<<q, Head(tids)>>] = @ + 1], q, Tail(tids))

\* POST /questions/{question_id}/taxonomy/bulk: the old links are marked
\* deleted and the new ones added in the session; the commit flushes the
\* INSERTs before the DELETEs (the unit of work's order), so the new rows
\* meet the old ones, and a failed flush rolls everything back
BulkSetQuestionTaxonomy ==
  /\ handler' = "bulk_set_question_taxonomy"
  /\ \E q \in RequestedQuestions, tids \in Str(NodeIds, MaxBulk) :
       /\ payload' = LinkRequest(q, tids)
       /\ IF q \notin QuestionIds
          THEN UNCHANGED links /\ http_status' = 404
          ELSE LET inserted == BulkInsert(links, q, tids) IN
               IF IsNone(inserted)
               THEN UNCHANGED links /\ http_status' = 500
               ELSE /\ links' = [p \in DOMAIN links |->
                                   IF p[1] = q THEN Val(inserted)[p] - links[p]
                                   ELSE links[p]]
                    /\ http_status' = 200
  /\ UNCHANGED <<taxonomy, stats, attempts, txn, listing>>
  /\ UNCHANGED <<question, graded, q_attempt, qa, rx>>
  /\ PublishFrame /\ KeysFrame

\* Taxonomy.path.like(f"{t_node.path}%"): ids are uuids of one length, so a
\* string is a prefix of a path exactly when its ids are a prefix of the ids
IsPrefix(p, s) == Len(p) <= Len(s) /\ SubSeq(s, 1, Len(p)) = p
\* The taxonomy rows the filter joins: path LIKE the node's path, or, for a
\* node that is missing or has no path, taxonomy_id = the id asked for
Matched(tid) ==
  IF Exists(tid) /\ taxonomy[tid].path # <<>>
  THEN {n \in DOMAIN taxonomy : IsPrefix(taxonomy[tid].path, taxonomy[n].path)}
  ELSE {tid} \intersect NodeIds
RECURSIVE SumOver(_, _)
SumOver(f, S) ==
  IF S = {} THEN 0
  ELSE LET x == CHOOSE y \in S : TRUE IN f[x] + SumOver(f, S \ {x})
\* Question JOIN QuestionTaxonomy JOIN Taxonomy: one row per link, for each
\* question the number of rows it appears in
JoinRows(tid) ==
  [q \in QuestionIds |-> SumOver([n \in NodeIds |-> links[<<q, n>>]], Matched(tid))]

\* GET /questions?taxonomy_id=: result.scalars().all() of the join and the
\* count(*) of the same join (fewer rows than a page holds)
ListQuestions ==
  /\ handler' = "list_questions"
  /\ http_status' = 200
  /\ \E tid \in NodeIds :
       listing' = [taxonomy_id |-> tid, questions |-> JoinRows(tid),
                   total |-> SumOver(JoinRows(tid), QuestionIds)]
  /\ UNCHANGED <<taxonomy, stats, attempts, txn, links>>
  /\ GradingFrame /\ PublishFrame /\ KeysFrame

\* The link endpoints over a chain of nodes built by create_taxonomy, the
\* last node id naming no node
ChainTaxonomy ==
  [n \in 1..(MaxNodes - 1) |->
     [parent_id |-> IF n = 1 THEN None ELSE Some(n - 1),
      path |-> [i \in 1..n |-> i]]]
InitLinks ==
  /\ taxonomy = ChainTaxonomy
  /\ links = NoLinks
  /\ listing = <<>>
  /\ stats = {} /\ attempts = <<>> /\ txn = <<>>
  /\ handler = "" /\ http_status = 0
  /\ GradingIdle
  /\ quiz_versions = <<>> /\ publishers = <<>>
  /\ key_manager = <<>> /\ callers = <<>> /\ clock = 0

NextLinks ==
  LinkQuestionTaxonomy \/ UnlinkQuestionTaxonomy \/ BulkSetQuestionTaxonomy

SpecLinks == InitLinks /\ [][NextLinks]_vars

\* The filtered listing over a taxonomy as create_taxonomy builds it, with
\* questions linked to its nodes
InitListing ==
  /\ taxonomy = <<>>
  /\ links = NoLinks
  /\ listing = <<>>
  /\ stats = {} /\ attempts = <<>> /\ txn = <<>>
  /\ handler = "" /\ http_status = 0
  /\ GradingIdle
  /\ quiz_versions = <<>> /\ publishers = <<>>
  /\ key_manager = <<>> /\ callers = <<>> /\ clock = 0

NextListing == CreateTaxonomy \/ LinkQuestionTaxonomy \/ ListQuestions

SpecListing == InitListing /\ [][NextListing]_vars

\* ------------------------------------------- response slots, parts shapes
\* submit_answer for responses whose parts fill any combination of the three
\* slots, against one question per answer type and against questions whose
\* scoring.parts is a string or a mapping instead of a list of rules
SlotParts ==
  [selected_option_ids : {None, Some(<<1>>)},
   text_response : {None, Some(<<"a">>)},
   numeric_response : {None, Some(0)}]
SlotPayloads == Str(SlotParts, MaxParts)
SlotQuestions ==
  {Question("text", [NoScoring EXCEPT !.accepted_answers = Some(<<<<"a">>>>)], <<>>),
   Question("match", [NoScoring EXCEPT !.pairs = Some(<<<<"a">>>>)], <<>>),
   Question("regex", [NoScoring EXCEPT !.pattern = Some(<<"a">>)], <<>>),
   Question("fuzzy", [NoScoring EXCEPT !.target = Some(<<"a">>)], <<>>),
   Question("numeric", [NoScoring EXCEPT !.answer = Some(IntNum(0))], <<>>),
   Question("options", NoScoring,
            <<[id |-> 1, is_correct |-> TRUE, weight |-> Some(2)],
              [id |-> 2, is_correct |-> FALSE, weight |-> None]>>)}
MalformedParts ==
  {[NoScoring EXCEPT !.parts = Some(<<"a", "b">>), !.parts_type = "str", !.max_score = m] :
     m \in {None, Some(IntNum(2))}} \union
  {[NoScoring EXCEPT !.parts = Some(<<"a">>), !.parts_type = "dict", !.max_score = m] :
     m \in {None, Some(IntNum(2))}}
MalformedQuestions ==
  {Question(t, sc, <<>>) : t \in {"text", "essay"}, sc \in MalformedParts}

InitSlots ==
  /\ question \in SlotQuestions \union MalformedQuestions
  /\ payload \in SlotPayloads
  /\ handler = ""
  /\ http_status = 0
  /\ graded = NotGraded
  /\ q_attempt = None
  /\ qa = [score |-> None, max_score |-> None]
  /\ rx = NoRegexCall
  /\ StatsIdle
  /\ ServicesIdle

NextSlots == SubmitAnswer

SpecSlots == InitSlots /\ [][NextSlots]_vars

\* --------------------------------------------- totals of one quiz attempt
\* Two submit_answer requests on the same quiz attempt, started without a
\* user (no statistics update), each in a session of its own: the handler
\* loads the QuizAttempt row first, adds to the totals it loaded, and its
\* commit writes the QuestionAttempt and the totals it computed.
TotalsRequest(score, max_score) ==
  [pc |-> "start", score |-> score, max_score |-> max_score,
   seen |-> [score |-> None, max_score |-> None]]
TotalsRequests ==
  {TotalsRequest(g[1], g[2]) : g \in {<<0, 1>>, <<1, 1>>, <<1, 2>>, <<2, 2>>}}

InitTotals ==
  /\ txn \in [Subs -> TotalsRequests]
  /\ attempts = <<>>
  /\ taxonomy = <<>> /\ stats = {}
  /\ handler = "" /\ http_status = 0
  /\ GradingIdle
  /\ ServicesIdle

TotalsFrame ==
  /\ UNCHANGED <<question, payload, graded, q_attempt, rx, taxonomy, stats,
                 handler, http_status>>
  /\ ServicesFrame

\* qa = await db.get(QuizAttempt, attempt_id)
FetchQuizAttempt(s) ==
  /\ txn[s].pc = "start"
  /\ txn' = [txn EXCEPT ![s] = [@ EXCEPT !.pc = "loaded", !.seen = qa]]
  /\ UNCHANGED <<qa, attempts>>
  /\ TotalsFrame

\* The column after the flush of a session that loaded the value seen and
\* holds the value new: the UPDATE sets the columns whose value the session
\* changed, to the session's value
Flushed(seen, new, column) == IF seen = Some(new) THEN column ELSE Some(new)

\* lines 261-306: the QuestionAttempt is added, qa.max_score and qa.score
\* (0 when None) are increased in the session, and the commit writes the
\* new row and UPDATEs the quiz attempt with the values of the session
CommitTotals(s) ==
  /\ txn[s].pc = "loaded"
  /\ LET t == txn[s] IN
     /\ qa' = [score |-> Flushed(t.seen.score, Get(t.seen.score, 0) + t.score, qa.score),
               max_score |-> Flushed(t.seen.max_score,
                                     Get(t.seen.max_score, 0) + t.max_score,
                                     qa.max_score)]
     /\ attempts' = Append(attempts, [score |-> t.score, max_score |-> t.max_score])
     /\ txn' = [txn EXCEPT ![s] = [@ EXCEPT !.pc = "done"]]
  /\ TotalsFrame

NextTotals ==
  \/ \E s \in Subs : FetchQuizAttempt(s)
  \/ \E s \in Subs : CommitTotals(s)

SpecTotals == InitTotals /\ [][NextTotals]_vars

\* --------------------------------------------------------- quiz versions
\* publish_quiz requests on one quiz, each in a session of its own at READ
\* COMMITTED, and start_quiz without a version_id.  A quiz_versions row is
\* [id, version_number]; ids follow the order of the commits.
Publishers == {1, 2}
IdlePublisher == [pc |-> "idle", count |-> 0]

InitPublish ==
  /\ quiz_versions = <<>>
  /\ publishers = [p \in Publishers |-> IdlePublisher]
  /\ links = <<>> /\ listing = <<>>
  /\ key_manager = <<>> /\ callers = <<>> /\ clock = 0
  /\ taxonomy = <<>> /\ stats = {} /\ attempts = <<>> /\ txn = <<>>
  /\ handler = "" /\ http_status = 0
  /\ GradingIdle

PublishOthers ==
  /\ UNCHANGED <<question, payload, graded, q_attempt, rx, taxonomy, stats,
                 attempts, txn, http_status>>
  /\ CatalogFrame /\ KeysFrame

\* select(func.count()).select_from(QuizVersion).where(quiz_id == quiz.id):
\* the rows committed so far
CountVersions(p) ==
  /\ publishers[p].pc = "idle"
  /\ Len(quiz_versions) < MaxVersions
  /\ publishers' = [publishers EXCEPT ![p] = [pc |-> "counted", count |-> Len(quiz_versions)]]
  /\ handler' = "publish_quiz"
  /\ UNCHANGED <<quiz_versions, qa>>
  /\ PublishOthers

\* version_number = int(count) + 1; db.add(qv); commit.  quiz_versions has
\* no unique constraint on (quiz_id, version_number), so the INSERT succeeds
CommitPublish(p) ==
  /\ publishers[p].pc = "counted"
  /\ quiz_versions' = Append(quiz_versions,
       [id |-> Len(quiz_versions) + 1, version_number |-> publishers[p].count + 1])
  /\ publishers' = [publishers EXCEPT ![p] = IdlePublisher]
  /\ handler' = "publish_quiz"
  /\ UNCHANGED qa
  /\ PublishOthers

\* order_by(QuizVersion.version_number.desc()) ... scalars().first(): a row
\* with the greatest version_number, any of them when several share it
LatestVersions ==
  {i \in 1..Len(quiz_versions) :
     \A j \in 1..Len(quiz_versions) :
       quiz_versions[j].version_number <= quiz_versions[i].version_number}

\* POST /quizzes/{quiz_id}/start without version_id
StartQuiz ==
  /\ handler' = "start_quiz"
  /\ \E chosen \in (IF LatestVersions = {} THEN {None}
                    ELSE {Some(quiz_versions[i].id) : i \in LatestVersions}) :
       qa' = [score |-> None, max_score |-> None, quiz_version_id |-> chosen]
  /\ UNCHANGED <<quiz_versions, publishers>>
  /\ PublishOthers

NextPublish ==
  \/ \E p \in Publishers : CountVersions(p)
  \/ \E p \in Publishers : CommitPublish(p)
  \/ StartQuiz

SpecPublish == InitPublish /\ [][NextPublish]_vars

\* ------------------------------------------------------------ key rotation
\* The KeyManager of app/core/config.py under concurrent callers of
\* get_api_key / get_client (the two bodies are the same).  Keys are numbered
\* from 0 as self.keys is indexed; time is in whole seconds.  grants lists
\* the reservations in the order the lock was taken.
RateLimitSeconds == 10
Callers == 1..MaxCalls
IdleCaller == [pc |-> "idle", key |-> None, start |-> 0, wake |-> 0]

\* Variant: an index that is not advanced
NextIndex_Stuck(index, n) == index
\* self.index = (self.index + 1) % len(self.keys)
NextIndex(index, n) == (index + 1) % n
\* wait_time: next_allowed - now when that lies ahead, else 0
WaitTime(next_allowed, now) == IF next_allowed > now THEN next_allowed - now ELSE 0
\* effective_start = max(now, item["next_allowed"])
EffectiveStart(next_allowed, now) == IF now >= next_allowed THEN now ELSE next_allowed

\* KeyManager.__init__ with n >= 1 keys configured
InitKeys ==
  /\ \E n \in 1..MaxKeys :
       key_manager = [next_allowed |-> [i \in 1..n |-> 0], index |-> 0,
                      lock |-> None, grants |-> <<>>]
  /\ callers = [c \in Callers |-> IdleCaller]
  /\ clock = 0
  /\ links = <<>> /\ listing = <<>>
  /\ quiz_versions = <<>> /\ publishers = <<>>
  /\ taxonomy = <<>> /\ stats = {} /\ attempts = <<>> /\ txn = <<>>
  /\ handler = "" /\ http_status = 0
  /\ GradingIdle

KeysOthers ==
  /\ UNCHANGED <<taxonomy, stats, attempts, txn, handler, http_status>>
  /\ GradingFrame /\ CatalogFrame /\ PublishFrame

\* async with self._lock: entered when no caller holds the lock
TakeLock(c) ==
  /\ callers[c].pc = "idle"
  /\ IsNone(key_manager.lock)
  /\ key_manager' = [key_manager EXCEPT !.lock = Some(c)]
  /\ callers' = [callers EXCEPT ![c] = [@ EXCEPT !.pc = "locked"]]
  /\ UNCHANGED clock
  /\ KeysOthers

\* The body under the lock, which has no await, and the release
Reserve(c) ==
  /\ callers[c].pc = "locked"
  /\ LET n == Len(key_manager.next_allowed)
         idx == key_manager.index
         next_allowed == key_manager.next_allowed[idx + 1]
         now == clock
         wait_time == WaitTime(next_allowed, now)
         effective_start == EffectiveStart(next_allowed, now)
     IN /\ key_manager' =
             [key_manager EXCEPT
                !.index = NextIndex(idx, n),
                !.next_allowed[idx + 1] = effective_start + RateLimitSeconds,
                !.lock = None,
                !.grants = Append(@, [key |-> idx, start |-> effective_start])]
        /\ callers' = [callers EXCEPT ![c] =
             [@ EXCEPT !.pc = "sleeping", !.key = Some(idx),
                       !.start = effective_start, !.wake = now + wait_time]]
  /\ UNCHANGED clock
  /\ KeysOthers

\* if wait_time > 0: await asyncio.sleep(wait_time); return key.  The
\* locals of the call other than the key returned end with it.
ReturnKey(c) ==
  /\ callers[c].pc = "sleeping"
  /\ clock >= callers[c].wake
  /\ callers' = [callers EXCEPT ![c] = [IdleCaller EXCEPT !.pc = "done", !.key = callers[c].key]]
  /\ UNCHANGED <<key_manager, clock>>
  /\ KeysOthers

\* time.time() advances
Tick ==
  /\ clock < MaxClock
  /\ clock' = clock + 1
  /\ UNCHANGED <<key_manager, callers>>
  /\ KeysOthers

NextKeys ==
  \/ \E c \in Callers : TakeLock(c)
  \/ \E c \in Callers : Reserve(c)
  \/ \E c \in Callers : ReturnKey(c)
  \/ Tick

SpecKeys == InitKeys /\ [][NextKeys]_vars

\* ================================================================= claims
ByAnswer == handler = "submit_answer"
GradedOk == graded.status = "ok"
Scoring == question.scoring
RECURSIVE SumSeq(_)
SumSeq(xs) == IF xs = <<>> THEN 0 ELSE Head(xs) + SumSeq(Tail(xs))
\* The literal value of a well-formed JSON number, in tenths
Tenths(n) == IF n.kind = "int" THEN 10 * n.v ELSE n.v
Abs(x) == IF x < 0 THEN -x ELSE x
WellFormedMax == IsNone(Scoring.max_score) \/ ~IsBad(Val(Scoring.max_score))

\* C1: every result that submit_answer produces, whatever the dispatch branch,
\* has score >= 0 and, when max_score > 0, score <= max_score.
C1_ScoreWithinMax ==
  (ByAnswer /\ GradedOk) =>
    /\ graded.score >= 0
    /\ graded.max_score > 0 => graded.score <= graded.max_score

\* C2: for answer_type options without scoring.parts, max_score is the sum of
\* the weights (default 1) of the correct options and score the sum of the
\* weights of the correct options whose id is among the selected ids of all
\* the parts, each option counted once and incorrect selections ignored.
C2_Weight(o) == Get(o.weight, 1)
C2_Chosen(o) ==
  \E i \in 1..Len(payload) :
    /\ ~IsNone(payload[i].selected_option_ids)
    /\ \E k \in 1..Len(Val(payload[i].selected_option_ids)) :
         Val(payload[i].selected_option_ids)[k] = o.id
C2_OptionsSums ==
  (ByAnswer /\ GradedOk /\ graded.branch = "options") =>
    /\ graded.max_score =
         SumSeq([i \in 1..Len(question.options) |->
                   IF question.options[i].is_correct
                   THEN C2_Weight(question.options[i]) ELSE 0])
    /\ graded.score =
         SumSeq([i \in 1..Len(question.options) |->
                   IF question.options[i].is_correct /\ C2_Chosen(question.options[i])
                   THEN C2_Weight(question.options[i]) ELSE 0])

\* C3: when scoring.parts is a non-empty list submit_answer grades by the
\* per-part rule and the result is the same for every answer_type; a rule of
\* the answer_type level is used only when scoring.parts is absent or empty.
C3_NonEmptyParts == ~IsNone(Scoring.parts) /\ Len(Val(Scoring.parts)) > 0
C3_PartsPrecedence ==
  ByAnswer =>
    /\ C3_NonEmptyParts =>
         /\ graded.branch = "parts"
         /\ \A t \in AnswerTypes :
              Grade([question EXCEPT !.answer_type = t], payload) = graded
    /\ graded.branch # "parts" => ~C3_NonEmptyParts
C3_Witness ==
  /\ ByAnswer /\ GradedOk /\ C3_NonEmptyParts
  /\ question.answer_type = "options"
  /\ question.options # <<>> /\ question.options[1].is_correct
  /\ payload # <<>> /\ payload[1].selected_option_ids = Some(<<1>>)
  /\ graded.branch = "parts"

\* C4: under per-part scoring max_score is the sum of the max_score (default
\* 1) of all the rules, however many response parts there are, and score the
\* sum of the max_score of the rules i whose response part exists at index i
\* and satisfies the sub-rule of rule i; other parts add nothing.
C4_PartMax(i) == Get(Val(Scoring.parts)[i].max_score, IntNum(1)).v
C4_Satisfied(i) ==
  /\ i <= Len(payload)
  /\ PartCredit(Val(Scoring.parts)[i], payload[i]) = "credit"
C4_PerPartSums ==
  (ByAnswer /\ GradedOk /\ graded.branch = "parts") =>
    /\ graded.max_score =
         SumSeq([i \in 1..Len(Val(Scoring.parts)) |-> C4_PartMax(i)])
    /\ graded.score =
         SumSeq([i \in 1..Len(Val(Scoring.parts)) |->
                   IF C4_Satisfied(i) THEN C4_PartMax(i) ELSE 0])
C4_Witness ==
  /\ ByAnswer /\ GradedOk /\ graded.branch = "parts"
  /\ Len(Val(Scoring.parts)) = 2 /\ Len(payload) = 1
  /\ C4_Satisfied(1)
  /\ C4_PartMax(1) = 2 /\ C4_PartMax(2) = 3
  /\ graded.score = 2 /\ graded.max_score = 5

\* C5: for answer_type numeric the numeric_response r of the first part earns
\* score == max_score exactly when |r - answer| <= tolerance (default 0),
\* the boundary |r - answer| == tolerance included, and 0 beyond it.
C5_Applies ==
  /\ ByAnswer /\ GradedOk /\ graded.branch = "numeric"
  /\ payload # <<>> /\ ~IsNone(payload[1].numeric_response)
  /\ ~IsNone(Scoring.answer) /\ ~IsBad(Val(Scoring.answer))
  /\ ~IsBad(Get(Scoring.tolerance, IntNum(0)))
C5_Distance == Abs(Val(payload[1].numeric_response) - Tenths(Val(Scoring.answer)))
C5_ToleranceInclusive ==
  C5_Applies =>
    IF C5_Distance <= Tenths(Get(Scoring.tolerance, IntNum(0)))
    THEN graded.score = graded.max_score
    ELSE graded.score = 0

\* C6: submit_answer never raises on a non-numeric literal in answer,
\* tolerance or max_score (of the scoring rule or of a part rule): the
\* submission completes with a result.
C6_BadThreshold ==
  \/ ~IsNone(Scoring.threshold) /\ IsBad(Val(Scoring.threshold))
  \/ /\ ~IsNone(Scoring.parts)
     /\ \E i \in 1..Len(Val(Scoring.parts)) :
          /\ ~IsNone(Val(Scoring.parts)[i].threshold)
          /\ IsBad(Val(Val(Scoring.parts)[i].threshold))
C6_NeverRaises ==
  (ByAnswer /\ ~C6_BadThreshold) => (GradedOk /\ http_status = 200)

\* C7 as claimed: for answer_type text the text_response of the first part
\* earns score == max_score exactly when, trimmed and lower-cased, it equals
\* an accepted answer compared case-insensitively, and 0 otherwise.
C7_Applies ==
  /\ ByAnswer /\ GradedOk /\ graded.branch = "text"
  /\ payload # <<>> /\ ~IsNone(payload[1].text_response)
C7_Equal ==
  \E i \in 1..Len(Get(Scoring.accepted_answers, <<>>)) :
    Lower(Strip(Val(payload[1].text_response)))
      = Lower(Get(Scoring.accepted_answers, <<>>)[i])
C7_TextExact ==
  C7_Applies =>
    IF C7_Equal THEN graded.score = graded.max_score ELSE graded.score = 0
\* C7 as amended: the same for a non-empty text_response; an empty
\* text_response scores 0 whatever the accepted answers.
C7_TextNonEmpty ==
  C7_Applies =>
    IF Val(payload[1].text_response) # <<>> /\ C7_Equal
    THEN graded.score = graded.max_score /\ graded.max_score = MaxScoreNum(Scoring.max_score).v
    ELSE graded.score = 0
C7_Witness ==
  /\ C7_Applies /\ C7_Equal
  /\ Val(payload[1].text_response) = <<" ", "A">>
  /\ graded.score = 2

\* C8 as claimed: for answer_type fuzzy a text_response identical to
\* scoring.target scores full credit whatever the threshold, and a response
\* whose similarity ratio is below the threshold scores 0.
C8_Applies ==
  /\ ByAnswer /\ GradedOk /\ graded.branch = "fuzzy"
  /\ payload # <<>> /\ ~IsNone(payload[1].text_response)
  /\ ~IsNone(Scoring.target)
C8_Text == Val(payload[1].text_response)
C8_Target == Val(Scoring.target)
C8_Threshold == Tenths(Get(Scoring.threshold, FloatNum(8)))
C8_RatioBelow ==
  LET sim == Ratio(Lower(C8_Text), Lower(C8_Target))
  IN 10 * sim[1] < C8_Threshold * sim[2]
C8_IdenticalAlways ==
  C8_Applies =>
    /\ C8_Text = C8_Target => graded.score = graded.max_score
    /\ C8_RatioBelow => graded.score = 0
\* C8 as amended: a non-empty text_response identical to scoring.target scores
\* full credit for every threshold up to 1, and a response whose similarity
\* ratio is below the threshold scores 0.
C8_IdenticalUpToOne ==
  C8_Applies =>
    /\ (C8_Text = C8_Target /\ C8_Text # <<>> /\ C8_Threshold <= 10)
         => graded.score = graded.max_score
    /\ C8_RatioBelow => graded.score = 0
C8_Witness ==
  /\ C8_Applies /\ C8_Text = C8_Target /\ Len(C8_Text) = 2
  /\ C8_Threshold = 10
  /\ graded.score = 2

\* C9 as claimed: in _regex_matches an attempt after the first is made only
\* if the attempt before it failed to compile/execute, so a pattern that
\* compiles as given and does not match yields false; true is returned at the
\* first attempt that matches.
C9_Last == rx.outcomes[Len(rx.outcomes)]
C9_Expected(k) ==
  CASE k = 1 -> AttemptRaw(rx.pattern, rx.text)
    [] k = 2 -> AttemptDecoded(rx.pattern, rx.text)
    [] OTHER -> AttemptFallback(rx.pattern, rx.text)
C10_DefaultResult ==
  (/\ handler # ""
   /\ question.answer_type \notin KnownTypes
   /\ ~C3_NonEmptyParts
   /\ WellFormedMax) =>
    /\ http_status = 200
    /\ graded.score = 0
    /\ graded.max_score = MaxScoreNum(Scoring.max_score).v

\* The k-th ancestor of node n along parent_id, None above a root
RECURSIVE Ancestor(_, _)
Ancestor(n, k) ==
  IF k = 0 THEN Some(n)
  ELSE LET below == Ancestor(n, k - 1) IN
       IF IsNone(below) THEN None ELSE taxonomy[Val(below)].parent_id
IsOwnAncestor(n) == \E k \in 1..Len(taxonomy) : Ancestor(n, k) = Some(n)

\* C16: after any sequence of create_taxonomy and move_taxonomy_node the
\* parent_id relation is acyclic: no node is its own ancestor.
C16_Acyclic == \A n \in DOMAIN taxonomy : ~IsOwnAncestor(n)

\* C17: after any sequence of create_taxonomy and move_taxonomy_node every
\* node's path is parent.path + "." + id, or its own id for a root,
\* descendants of a moved node included (stated on the acyclic trees, where
\* a parent's path does not depend on the node's own).
C17_PathOk(n) ==
  IF IsNone(taxonomy[n].parent_id)
  THEN taxonomy[n].path = <<n>>
  ELSE taxonomy[n].path = taxonomy[Val(taxonomy[n].parent_id)].path \o <<n>>
C17_PathInvariant == C16_Acyclic => \A n \in DOMAIN taxonomy : C17_PathOk(n)

\* The nodes from tid up to its root (tid included), on an acyclic taxonomy
Chain(tid) ==
  {Val(Ancestor(tid, k)) : k \in {j \in 0..(Len(taxonomy) - 1) : ~IsNone(Ancestor(tid, j))}}
RowsOf(n) == {r \in stats : r.user_id = UserId /\ r.taxonomy_id = n}
\* Submission s, made for a user through submit_answer, is the only one
\* committed so far
OnlyCommitted(s) ==
  /\ txn[s].via = "submit_answer" /\ txn[s].user
  /\ txn[s].status = 200
  /\ \A u \in Subs \ {s} : txn[u].status # 200
\* How many of the tagged nodes of submission s have n on their chain
ChainsThrough(s, n) ==
  Cardinality({i \in 1..Len(txn[s].tags) : n \in Chain(txn[s].tags[i])})

\* What the rows held before the submissions of the run
Prior(n) == \E r \in stats : r.id = <<0, n>>
PriorAttempted(n) == IF Prior(n) THEN 1 ELSE 0
PriorScore(n) == IF Prior(n) THEN 2 ELSE 0

\* C11: one call of update_user_taxonomy_stats for a question tagged to a
\* single node adds exactly 1 to questions_attempted of every node on that
\* node's ancestor chain (the node, its parent, ... the root), creating the
\* row with value 1 where there was none, and touches no other node.
C11_AncestorPropagation ==
  \A s \in Subs :
    (OnlyCommitted(s) /\ Len(txn[s].tags) = 1) =>
      \A n \in NodeIds :
        IF n \in Chain(txn[s].tags[1])
        THEN /\ Cardinality(RowsOf(n)) = 1
             /\ \A r \in RowsOf(n) : r.questions_attempted = PriorAttempted(n) + 1
        ELSE \A r \in RowsOf(n) : Prior(n) /\ r.questions_attempted = 1
C11_Witness ==
  /\ OnlyCommitted(1) /\ txn[1].tags = <<MaxNodes>>
  /\ \A n \in NodeIds \ {1} : taxonomy[n].parent_id = Some(n - 1)
  /\ IsNone(taxonomy[1].parent_id)
  /\ \A n \in NodeIds : \E r \in RowsOf(n) : r.questions_attempted = 1
  /\ ~Prior(1)

\* C12: one call for a question tagged to two nodes updates a node that lies
\* on both chains twice (the shared parent of two siblings counts 2) and a
\* node on one chain once; the second update finds the row of the first, so
\* the call commits with one row per node.
C12_SharedParentTwice ==
  \A s \in Subs :
    /\ (OnlyCommitted(s) /\ Len(txn[s].tags) = 2) =>
         \A n \in NodeIds :
           IF ChainsThrough(s, n) = 0
           THEN \A r \in RowsOf(n) : Prior(n) /\ r.questions_attempted = 1
           ELSE /\ Cardinality(RowsOf(n)) = 1
                /\ \A r \in RowsOf(n) :
                     /\ r.questions_attempted = PriorAttempted(n) + ChainsThrough(s, n)
                     /\ r.total_score = PriorScore(n) + ChainsThrough(s, n) * txn[s].score
    /\ (txn[s].via = "submit_answer" /\ \A u \in Subs \ {s} : txn[u].status # 200)
         => txn[s].status # 500
C12_Witness ==
  /\ OnlyCommitted(1) /\ txn[1].tags = <<MaxNodes - 1, MaxNodes>>
  /\ taxonomy[MaxNodes].parent_id = Some(1)
  /\ taxonomy[MaxNodes - 1].parent_id = Some(1)
  /\ ~Prior(1)
  /\ \E r \in RowsOf(1) : r.questions_attempted = 2
  /\ \E r \in RowsOf(MaxNodes) : r.questions_attempted = 1
  /\ \E r \in RowsOf(MaxNodes - 1) : r.questions_attempted = 1

\* The submissions whose statistics update has been committed
Contributed(s) == txn[s].via = "submit_answer" /\ txn[s].user /\ txn[s].status = 200
\* The committed updates ran one after the other: of any two, one began
\* after the other had committed
Sequential ==
  \A s, u \in Subs :
    (s # u /\ Contributed(s) /\ Contributed(u)) =>
      (u \in txn[s].after \/ s \in txn[u].after)
\* Sum over the committed updates of v(s) times the number of their chains
\* that pass node n
C13_Calls(n) == SumSeq([s \in Subs |-> IF Contributed(s) THEN ChainsThrough(s, n) ELSE 0])
C13_Scores(n) ==
  SumSeq([s \in Subs |-> IF Contributed(s) THEN ChainsThrough(s, n) * txn[s].score ELSE 0])
C13_MaxScores(n) ==
  SumSeq([s \in Subs |-> IF Contributed(s) THEN ChainsThrough(s, n) * txn[s].max_score ELSE 0])
C13_Correct(n) ==
  SumSeq([s \in Subs |->
            IF Contributed(s) /\ txn[s].score = txn[s].max_score /\ txn[s].max_score > 0
            THEN ChainsThrough(s, n) ELSE 0])

\* C13: update_user_taxonomy_stats is additive: after k calls made one after
\* the other each touched node has one row with questions_attempted = k,
\* total_score = the sum of the scores, max_possible_score = the sum of the
\* max_scores and questions_correct = the number of calls with
\* score == max_score and max_score > 0 (a node on several chains of one
\* call counting once per chain), on top of what the row held before; with
\* no row at the start these are the values of the row.
C13_Additive ==
  Sequential =>
    \A n \in NodeIds :
      IF C13_Calls(n) = 0
      THEN \A r \in RowsOf(n) : Prior(n) /\ r.questions_attempted = 1
      ELSE /\ Cardinality(RowsOf(n)) = 1
           /\ \A r \in RowsOf(n) :
                /\ r.questions_attempted = PriorAttempted(n) + C13_Calls(n)
                /\ r.total_score = PriorScore(n) + C13_Scores(n)
                /\ r.max_possible_score = PriorScore(n) + C13_MaxScores(n)
                /\ r.questions_correct = PriorAttempted(n) + C13_Correct(n)
C13_Witness ==
  /\ Sequential
  /\ Contributed(1) /\ Contributed(2) /\ 1 \in txn[2].after
  /\ ~Prior(1)
  /\ txn[1].tags = <<MaxNodes>> /\ txn[2].tags = <<MaxNodes>>
  /\ txn[1].score = 1 /\ txn[2].score = 1 /\ txn[1].max_score = 2 /\ txn[2].max_score = 2
  /\ \E r \in RowsOf(MaxNodes) :
       /\ r.questions_attempted = 2 /\ r.total_score = 2
       /\ r.max_possible_score = 4 /\ r.questions_correct = 0

\* C14: when submissions of one user that touch a common node run
\* concurrently, then under every interleaving, once all of them have
\* committed, the node's questions_attempted, total_score and
\* max_possible_score include every one of them.
C14_AllCommitted ==
  /\ \A s \in Subs : txn[s].via = "submit_answer" /\ txn[s].user /\ txn[s].status = 200
  /\ ~Sequential
C14_NoLostUpdate ==
  C14_AllCommitted =>
    \A n \in NodeIds : \A r \in RowsOf(n) :
      /\ r.questions_attempted = PriorAttempted(n) + C13_Calls(n)
      /\ r.total_score = PriorScore(n) + C13_Scores(n)
      /\ r.max_possible_score = PriorScore(n) + C13_MaxScores(n)

\* C15: the walk of update_user_taxonomy_stats terminates on a parent_id
\* cycle: it never collects a node a second time, the revisit ending the
\* submission with an internal error instead.
C15_Collected(s) == {txn[s].ancestors[i] : i \in 1..Len(txn[s].ancestors)}
C15_Revisits(s) ==
  \E i, j \in 1..Len(txn[s].ancestors) :
    i < j /\ txn[s].ancestors[i] = txn[s].ancestors[j]
C15_WalkStopsOnCycle ==
  \A s \in Subs :
    /\ ~C15_Revisits(s)
    /\ (txn[s].pc = "walk" /\ ~IsNone(txn[s].cur)) => Val(txn[s].cur) \notin C15_Collected(s)

\* C18: in every reachable state there is at most one UserTaxonomyStats row
\* per (user_id, taxonomy_id), also after two concurrent first attempts that
\* both found no row for the node.
C18_UniqueRow == \A n \in NodeIds : Cardinality(RowsOf(n)) <= 1
C18_Witness ==
  /\ txn[1].via = "submit_answer" /\ txn[1].user /\ txn[1].status = 200
  /\ txn[2].status = 500 /\ 1 \notin txn[2].after
  /\ MaxNodes \in {txn[1].tags[i] : i \in 1..Len(txn[1].tags)}
  /\ \E r \in RowsOf(MaxNodes) : r.id = <<1, MaxNodes>>

\* C19: every stats row has average_score_percent == total_score /
\* max_possible_score * 100 (to the hundredth of a percent kept here) when
\* max_possible_score > 0 and average_score_percent == 0 when
\* max_possible_score == 0; an update with max_score 0 completes.
C19_AverageOk(r) ==
  IF r.max_possible_score > 0
  THEN LET off == r.average_score_percent * r.max_possible_score - 10000 * r.total_score
       IN 2 * Abs(off) <= r.max_possible_score
  ELSE r.max_possible_score = 0 => r.average_score_percent = 0
C20_Failed(s) == txn[s].pc = "done" /\ txn[s].status = 500
C20_TotalAttempted(n) ==
  IF RowsOf(n) = {} THEN 0 ELSE (CHOOSE r \in RowsOf(n) : TRUE).questions_attempted
C20_FailureAborts ==
  /\ \A s \in Subs :
       C20_Failed(s) =>
         /\ attempts[s] = NoAttempt
         /\ \A r \in stats : r.id[1] # s
  /\ \A n \in NodeIds : C20_TotalAttempted(n) <= PriorAttempted(n) + C13_Calls(n)
  /\ \A s \in Subs : (txn[s].pc = "done" /\ txn[s].status = 200) <=> ~IsNone(attempts[s].q_attempt)
C20_Witness ==
  /\ C20_Failed(2) /\ txn[2].via = "submit_answer" /\ txn[2].ti <= Len(txn[2].tags)
  /\ txn[1].status = 200
  /\ attempts[2] = NoAttempt /\ ~IsNone(attempts[1].q_attempt)

\* The nodes of the subtree of n along parent_id (n included)
C21_Subtree(n) == {m \in DOMAIN taxonomy : n \in Chain(m)}
C21_Linked(n) ==
  {q \in QuestionIds : \E m \in C21_Subtree(n) : links[<<q, m>>] > 0}
C21_Returned == {q \in QuestionIds : listing.questions[q] > 0}
\* C21: listing questions filtered by a taxonomy node returns exactly the
\* questions linked to the node or to one of its descendants, and total is
\* the number of those questions.
C21_SubtreeFilter ==
  handler = "list_questions" =>
    /\ C21_Returned = C21_Linked(listing.taxonomy_id)
    /\ listing.total = Cardinality(C21_Linked(listing.taxonomy_id))

C22_Pair == <<payload'.question_id, payload'.taxonomy_ids[1]>>
C22_OneLinkPerPair == \A p \in DOMAIN links : links[p] <= 1
\* C22: linking a pair that is already linked answers 400 and unlinking a
\* pair that is not linked answers 404, both leaving the links as they were;
\* after every link, unlink and bulk-set request there is at most one link per
\* (question_id, taxonomy_id).
C22_LinkOnce ==
  [][/\ (handler' = "link_question_taxonomy" /\ LinkRows(links, C22_Pair[1], C22_Pair[2]) > 0)
          => (http_status' = 400 /\ links' = links)
     /\ (handler' = "unlink_question_taxonomy" /\ LinkRows(links, C22_Pair[1], C22_Pair[2]) = 0)
          => (http_status' = 404 /\ links' = links)
     /\ C22_OneLinkPerPair']_vars
C22_Witness ==
  /\ handler = "link_question_taxonomy" /\ http_status = 400
  /\ links[<<payload.question_id, payload.taxonomy_ids[1]>>] = 1
  /\ \E p \in DOMAIN links : p[1] = payload.question_id /\ p[2] # payload.taxonomy_ids[1]
                             /\ links[p] = 1

\* The responses that agree with the submitted one on what a rule of the
\* answer type reads: the first part's text_response, the first part's
\* numeric_response, or every part's selected_option_ids
C23_SameFirst(p, slot) ==
  \/ p = <<>> /\ payload = <<>>
  \/ p # <<>> /\ payload # <<>> /\
     IF slot = "text" THEN p[1].text_response = payload[1].text_response
     ELSE p[1].numeric_response = payload[1].numeric_response
C23_SameSelection(p) ==
  /\ Len(p) = Len(payload)
  /\ \A i \in 1..Len(p) : p[i].selected_option_ids = payload[i].selected_option_ids
C23_Alike(p) ==
  CASE question.answer_type \in {"text", "match", "regex", "fuzzy"} -> C23_SameFirst(p, "text")
    [] question.answer_type = "numeric" -> C23_SameFirst(p, "numeric")
    [] question.answer_type = "options" -> C23_SameSelection(p)
    [] OTHER -> FALSE
\* C23: a top-level rule reads only its slot: the result of text, match,
\* regex and fuzzy is the same for every response with the same first
\* text_response, that of numeric for every response with the same first
\* numeric_response, that of options for every response with the same
\* selected_option_ids.
C23_ReadsOwnSlot ==
  (handler = "submit_answer" /\ ~HasParts(question.scoring)) =>
    \A p \in SlotPayloads : C23_Alike(p) => Grade(question, p) = graded
C23_Witness ==
  /\ handler = "submit_answer" /\ question.answer_type = "text"
  /\ graded.status = "ok" /\ graded.score = 1
  /\ Len(payload) = 2
  /\ payload[1].numeric_response # None /\ payload[1].selected_option_ids # None
  /\ payload[2].text_response = None
  /\ \E p \in SlotPayloads : C23_Alike(p) /\ p # payload /\ Len(p) = 1

\* C24: scoring.parts that is present but is not a list of rules (a non-empty
\* string or mapping) does not crash the grading, which returns the result of
\* the default branch: score 0, max_score scoring.max_score or 1.
C24_MalformedPartsDefault ==
  (handler = "submit_answer" /\ question.scoring.parts_type # "list"
     /\ HasParts(question.scoring)) =>
    /\ graded.status = "ok" /\ http_status = 200
    /\ graded.branch = "default"
    /\ graded.score = 0
    /\ graded.max_score = MaxScoreNum(question.scoring.max_score).v

\* Submission s commits in the step
C25_Committing(s) ==
  txn[s].pc = "commit" /\ txn'[s].pc = "done" /\ txn'[s].status = 200
C25_OnChain(s, n) == \E i \in 1..Len(txn[s].tags) : n \in Chain(txn[s].tags[i])
\* C25: an update for user u and question q creates or changes only rows
\* keyed (u, n) with n on the ancestor chain of a node linked to q; rows of
\* other users and of other nodes stay as they are, no row is deleted, and
\* without a user or without taxonomy links nothing changes.
C25_FrameEffect ==
  [][/\ \A r \in stats : \E r2 \in stats' :
          r2.id = r.id /\ r2.user_id = r.user_id /\ r2.taxonomy_id = r.taxonomy_id
     /\ \A r2 \in stats' \ stats : \E s \in Subs :
          /\ C25_Committing(s) /\ txn[s].user
          /\ r2.user_id = UserId
          /\ C25_OnChain(s, r2.taxonomy_id)
     /\ \A s \in Subs :
          (C25_Committing(s) /\ (~txn[s].user \/ txn[s].tags = <<>>)) => stats' = stats]_vars
C25_Witness ==
  /\ \E s \in Subs : OnlyCommitted(s) /\ txn[s].tags = <<MaxNodes>>
  /\ OtherUserRows \subseteq stats
  /\ \E r \in RowsOf(MaxNodes) : r.questions_attempted = 2
  /\ \E n \in NodeIds \ Chain(MaxNodes) : InsertedRow(<<0, n>>, n, 2, 2) \in stats

C26_RowOk(r) ==
  /\ 0 <= r.questions_correct /\ r.questions_correct <= r.questions_attempted
  /\ 0 <= r.total_score /\ r.total_score <= r.max_possible_score
  /\ 0 <= r.average_score_percent /\ r.average_score_percent <= 10000
C26_Grows(r, r2) ==
  /\ r.questions_attempted <= r2.questions_attempted
  /\ r.questions_correct <= r2.questions_correct
  /\ r.total_score <= r2.total_score
  /\ r.max_possible_score <= r2.max_possible_score
\* C26: while the updates run one after the other with 0 <= score <=
\* max_score, every stats row has 0 <= questions_correct <=
\* questions_attempted, 0 <= total_score <= max_possible_score and an average
\* between 0 and 100 percent, and its four counters never decrease.
C26_BoundedMonotone ==
  /\ [](Sequential => \A r \in stats : C26_RowOk(r))
  /\ [][Sequential' =>
          \A r \in stats : \A r2 \in stats' : r2.id = r.id => C26_Grows(r, r2)]_vars
C26_Witness ==
  /\ Sequential
  /\ \A s \in Subs : Contributed(s)
  /\ \E r \in RowsOf(MaxNodes) :
       /\ r.questions_attempted = 3 /\ r.questions_correct = 2
       /\ r.total_score = 5 /\ r.max_possible_score = 6

\* C28: over the websocket a result message with "saved": true is sent only
\* for a submission whose QuestionAttempt (and statistics update, when a
\* user_id came with it) was committed; none is sent after a rollback.
C28_SavedMeansCommitted ==
  \A s \in Subs :
    (~IsNone(txn[s].msg) /\ Val(txn[s].msg).saved) =>
      (txn[s].status = 200 /\ ~IsNone(attempts[s].q_attempt))

\* C27: after any committed submit_answer calls on one quiz attempt, also
\* concurrent ones, the attempt's score is the sum of the scores of its
\* QuestionAttempt rows and its max_score the sum of their max_scores.
C27_TotalsAreSums ==
  /\ Get(qa.score, 0) = SumSeq([i \in 1..Len(attempts) |-> attempts[i].score])
  /\ Get(qa.max_score, 0) = SumSeq([i \in 1..Len(attempts) |-> attempts[i].max_score])

\* C29: after any publish_quiz calls on one quiz, two concurrent ones
\* included, the version numbers are 1..n in commit order (so no two rows
\* share one), and start_quiz without version_id binds the attempt to the
\* version published last.
C29_VersionsNumbered ==
  /\ \A i \in 1..Len(quiz_versions) : quiz_versions[i].version_number = i
  /\ (handler = "start_quiz" /\ quiz_versions # <<>>) =>
       qa.quiz_version_id = Some(quiz_versions[Len(quiz_versions)].id)

C30_Grants == key_manager.grants
C30_NumKeys == Len(key_manager.next_allowed)
C30_Serialized ==
  /\ Cardinality({c \in Callers : callers[c].pc = "locked"}) <= 1
  /\ key_manager.index \in 0..(C30_NumKeys - 1)
  /\ \A k \in 1..Len(C30_Grants) : C30_Grants[k].key = (k - 1) % C30_NumKeys
  /\ \A i, j \in 1..Len(C30_Grants) :
       (i < j /\ C30_Grants[i].key = C30_Grants[j].key) =>
         C30_Grants[j].start >= C30_Grants[i].start + RateLimitSeconds
C30_Returns ==
  \A c \in Callers :
    (callers[c].pc = "sleeping" /\ callers'[c].pc = "done") =>
      /\ clock >= callers[c].start
      /\ callers'[c].key = callers[c].key
\* C30: with n >= 1 keys and concurrent callers the lock serializes the
\* rotation: the caller that takes the lock as the k-th (counting from 0)
\* receives key k mod n, index stays within 0..n-1, the starts reserved for
\* one key are at least 10 seconds apart, and a caller returns no earlier
\* than the start reserved for it.
C30_Rotation == []C30_Serialized /\ [][C30_Returns]_vars
C30_Witness ==
  /\ Len(C30_Grants) >= 2
  /\ C30_Grants[2].key = C30_Grants[1].key
  /\ C30_Grants[2].start >= RateLimitSeconds
  /\ clock >= C30_Grants[2].start
  /\ \A c \in Callers : callers[c].pc = "done" /\ callers[c].key = Some(0)
====
